---- MODULE Spec2Model ----
(***************************************************************************)
(* Model of the page renderer of v-gen (src/renderer/src/page.js): the     *)
(* active-object resolver buildActiveObjects, the subtitle lookup of       *)
(* renderFrameInternal and the banner timing of drawNewsTitle.             *)
(*                                                                         *)
(* JavaScript values are records [k, n, d, s]: k is the kind ("undef" for  *)
(* a missing field, "num" for the finite number n/d in lowest terms with   *)
(* d > 0, "nan", "inf" for +/-Infinity with the sign in n, "str" for the   *)
(* string s).  Arithmetic on "num" is exact rational arithmetic: the       *)
(* inputs drawn below (whole and half seconds, millisecond timestamps)     *)
(* are values on which the double arithmetic of the code is exact or far   *)
(* from every rounding boundary the code tests.                            *)
(***************************************************************************)
EXTENDS Integers, Sequences, FiniteSets

VARIABLES project, ms, op, ret, remembered, lastRendered, canvas, res, run, async,
          audio

\* the page's window.__lastRendered, its canvas and its loaded resources
pageVars == <<lastRendered, canvas, res>>

\* the run of render.js, the page's pending callbacks and its audio controller
hostVars == <<run, async, audio>>

vars == <<project, ms, op, ret, remembered, pageVars, hostVars>>

----------------------------------------------------------------------------
(* JavaScript values.  An operator evaluates its operands once, before it    *)
(* computes: The({F(x) : x \in {e}}) is F applied to the value of e.         *)

The(S) == CHOOSE r \in S : TRUE

RECURSIVE GCD(_, _)
GCD(a, b) == IF b = 0 THEN a ELSE GCD(b, a % b)

Abs(i) == IF i < 0 THEN 0 - i ELSE i

Undef == [k |-> "undef", n |-> 0, d |-> 1, s |-> ""]

NaN == [k |-> "nan", n |-> 0, d |-> 1, s |-> ""]

Inf(sign) == [k |-> "inf", n |-> sign, d |-> 1, s |-> ""]

Str(t) == [k |-> "str", n |-> 0, d |-> 1, s |-> t]

Whole(i) == [k |-> "num", n |-> i, d |-> 1, s |-> ""]

\* the number n/d, d > 0, brought to lowest terms by their common divisor g
Reduced(n, d, g) == [k |-> "num", n |-> n \div g, d |-> d \div g, s |-> ""]

\* the number n/d, d # 0
Num(n, d) ==
  IF d < 0 THEN Reduced(0 - n, 0 - d, GCD(Abs(n), Abs(d)))
  ELSE Reduced(n, d, GCD(Abs(n), Abs(d)))

\* typeof v === "number" (NaN and the infinities are numbers)
TypeofNumber(v) == v.k \in {"num", "nan", "inf"}

\* ToNumber of the operand of an arithmetic operator: undefined becomes NaN
ToNumber(v) == IF v.k = "undef" THEN NaN ELSE v

\* ToBoolean: undefined, 0, NaN and "" are falsy
Truthy(v) ==
  CASE v.k = "undef" -> FALSE
    [] v.k = "nan" -> FALSE
    [] v.k = "num" -> v.n # 0
    [] v.k = "inf" -> TRUE
    [] v.k = "str" -> v.s # ""

OrOf(x, y) == IF Truthy(x) THEN x ELSE y

\* a || b
JsOr(a, b) == The({ OrOf(x, y) : x \in {a}, y \in {b} })

NullishOf(x, y) == IF x.k = "undef" THEN y ELSE x

\* a ?? b
JsNullish(a, b) == The({ NullishOf(x, y) : x \in {a}, y \in {b} })

Sign(x) == IF x.n > 0 THEN 1 ELSE IF x.n < 0 THEN 0 - 1 ELSE 0

\* x + y, x * y, x / y, -x, x < y, x === y on numbers
AddOf(x, y) ==
  CASE x.k = "nan" \/ y.k = "nan" -> NaN
    [] x.k = "inf" /\ y.k = "inf" -> IF x.n = y.n THEN x ELSE NaN
    [] x.k = "inf" -> x
    [] y.k = "inf" -> y
    [] OTHER -> Num(x.n * y.d + y.n * x.d, x.d * y.d)

NegOf(x) ==
  CASE x.k = "nan" -> NaN
    [] x.k = "inf" -> Inf(0 - x.n)
    [] OTHER -> [k |-> "num", n |-> 0 - x.n, d |-> x.d, s |-> ""]

MulOf(x, y) ==
  CASE x.k = "nan" \/ y.k = "nan" -> NaN
    [] x.k = "inf" \/ y.k = "inf" ->
         IF Sign(x) * Sign(y) = 0 THEN NaN ELSE Inf(Sign(x) * Sign(y))
    [] OTHER -> Num(x.n * y.n, x.d * y.d)

DivOf(x, y) ==
  CASE x.k = "nan" \/ y.k = "nan" -> NaN
    [] x.k = "inf" /\ y.k = "inf" -> NaN
    [] x.k = "inf" -> Inf(IF Sign(y) < 0 THEN 0 - x.n ELSE x.n)
    [] y.k = "inf" -> Whole(0)
    [] y.n = 0 -> IF x.n = 0 THEN NaN ELSE Inf(Sign(x))
    [] OTHER -> Num(x.n * y.d, x.d * y.n)

\* every comparison with NaN is false
LtOf(x, y) ==
  CASE x.k = "nan" \/ y.k = "nan" -> FALSE
    [] x.k = "inf" /\ y.k = "inf" -> x.n < y.n
    [] x.k = "inf" -> x.n < 0
    [] y.k = "inf" -> y.n > 0
    [] OTHER -> x.n * y.d < y.n * x.d

EqOf(x, y) == x.k # "nan" /\ y.k # "nan" /\ x = y

\* a + b, a - b, a * b, a / b
JsAdd(a, b) == The({ AddOf(x, y) : x \in {ToNumber(a)}, y \in {ToNumber(b)} })

JsSub(a, b) == The({ AddOf(x, NegOf(y)) : x \in {ToNumber(a)}, y \in {ToNumber(b)} })

JsMul(a, b) == The({ MulOf(x, y) : x \in {ToNumber(a)}, y \in {ToNumber(b)} })

JsDiv(a, b) == The({ DivOf(x, y) : x \in {ToNumber(a)}, y \in {ToNumber(b)} })

\* a < b, a > b, a <= b, a >= b
JsLt(a, b) == \E x \in {ToNumber(a)}, y \in {ToNumber(b)} : LtOf(x, y)

JsGt(a, b) == \E x \in {ToNumber(a)}, y \in {ToNumber(b)} : LtOf(y, x)

JsLe(a, b) == \E x \in {ToNumber(a)}, y \in {ToNumber(b)} : LtOf(x, y) \/ EqOf(x, y)

JsGe(a, b) == \E x \in {ToNumber(a)}, y \in {ToNumber(b)} : LtOf(y, x) \/ EqOf(x, y)

MinOf(x, y) ==
  IF x.k = "nan" \/ y.k = "nan" THEN NaN ELSE IF LtOf(y, x) THEN y ELSE x

MaxOf(x, y) ==
  IF x.k = "nan" \/ y.k = "nan" THEN NaN ELSE IF LtOf(x, y) THEN y ELSE x

\* Math.min(a, b), Math.max(a, b): NaN if either operand is NaN
MathMin(a, b) == The({ MinOf(x, y) : x \in {ToNumber(a)}, y \in {ToNumber(b)} })

MathMax(a, b) == The({ MaxOf(x, y) : x \in {ToNumber(a)}, y \in {ToNumber(b)} })

RoundOf(x) == IF x.k = "num" THEN Whole((2 * x.n + x.d) \div (2 * x.d)) ELSE x

CeilOf(x) == IF x.k = "num" THEN Whole(0 - ((0 - x.n) \div x.d)) ELSE x

\* Math.ceil(a)
MathCeil(a) == The({ CeilOf(x) : x \in {ToNumber(a)} })

\* Math.round(a): floor(a + 0.5)
MathRound(a) == The({ RoundOf(x) : x \in {ToNumber(a)} })

----------------------------------------------------------------------------
(* Easings, lerp *)

EasingNames == {"linear", "easeInOut", "easeOut"}

linear(t) == t

easeInOut(t) ==
  IF JsLt(t, Num(1, 2))
  THEN JsMul(JsMul(Whole(2), t), t)
  ELSE JsAdd(Whole(0 - 1), JsMul(JsSub(Whole(4), JsMul(Whole(2), t)), t))

\* 1 - Math.pow(1 - t, 3)
easeOut(t) ==
  The({ JsSub(Whole(1), JsMul(u, JsMul(u, u))) : u \in {JsSub(Whole(1), t)} })

\* Easings[name](t) for a defined name
Easings(name, t) ==
  The({ CASE name = "linear" -> linear(x)
          [] name = "easeInOut" -> easeInOut(x)
          [] name = "easeOut" -> easeOut(x) : x \in {t} })

LerpOf(a, b, t) == JsAdd(a, JsMul(JsSub(b, a), t))

lerp(a, b, t) == The({ LerpOf(x, y, u) : x \in {a}, y \in {b}, u \in {t} })

----------------------------------------------------------------------------
(* drawNewsTitle: the banner's phases and its guard *)

\* DEF of drawNewsTitle: the nominal phase durations in ms
NewsDEF == [grow |-> 300, delay |-> 100, textFade |-> 200, hold |-> 4000,
            textOut |-> 200, collapse |-> 300]

defaultTotal ==
  NewsDEF.grow + NewsDEF.delay + NewsDEF.textFade + NewsDEF.hold
    + NewsDEF.textOut + NewsDEF.collapse

IsNewsOverlay(o) == o.newsTitle.k = "str"

\* overlays.find((o) => typeof o.newsTitle === "string"): its index, 0 if none
NewsOverlayIndex(overlays) ==
  IF \E i \in 1..Len(overlays) : IsNewsOverlay(overlays[i])
  THEN CHOOSE i \in 1..Len(overlays) :
         IsNewsOverlay(overlays[i]) /\ \A j \in 1..(i - 1) : ~IsNewsOverlay(overlays[j])
  ELSE 0

\* startMs and endMs of the banner overlay ov
NewsStartMs(ov) ==
  IF TypeofNumber(ov.start) THEN MathRound(JsMul(ov.start, Whole(1000)))
  ELSE Whole(1000)

NewsEndMs(ov) ==
  IF TypeofNumber(ov.end) THEN MathRound(JsMul(ov.end, Whole(1000)))
  ELSE JsAdd(NewsStartMs(ov), Whole(defaultTotal))

\* available: Math.max(1, endMs - startMs)
NewsAvailable(startMs, endMs) == MathMax(Whole(1), JsSub(endMs, startMs))

\* Math.max(least, Math.round(nominal * scale))
ScaledPhase(least, nominal, scale) ==
  MathMax(Whole(least), MathRound(JsMul(Whole(nominal), scale)))

\* the six phase durations scaled by scale
ScaledBy(scale) ==
  [growDur |-> ScaledPhase(1, NewsDEF.grow, scale),
   textDelay |-> ScaledPhase(0, NewsDEF.delay, scale),
   textDur |-> ScaledPhase(1, NewsDEF.textFade, scale),
   holdAfterText |-> ScaledPhase(0, NewsDEF.hold, scale),
   textOutDur |-> ScaledPhase(1, NewsDEF.textOut, scale),
   collapseDur |-> ScaledPhase(1, NewsDEF.collapse, scale)]

\* the six phase durations scaled to an allotted time of available ms, before
\* the collapse is adjusted
NewsScaled(available) ==
  The({ ScaledBy(scale) :
          scale \in {IF JsLt(available, Whole(defaultTotal))
                     THEN JsDiv(available, Whole(defaultTotal)) ELSE Whole(1)} })

\* collapseDur += available - sumSoFar; if (collapseDur < 1) collapseDur = 1
AdjustedCollapse(collapseDur, available, sumSoFar) ==
  The({ IF JsLt(c, Whole(1)) THEN Whole(1) ELSE c :
          c \in {JsAdd(collapseDur, JsSub(available, sumSoFar))} })

\* ph with the collapse taking up the difference from sumSoFar to available
FillCollapse(ph, available, sumSoFar) ==
  IF sumSoFar # available
  THEN [ph EXCEPT !.collapseDur = AdjustedCollapse(ph.collapseDur, available, sumSoFar)]
  ELSE ph

SumOfPhases(ph) ==
  JsAdd(JsAdd(JsAdd(JsAdd(JsAdd(ph.growDur, ph.textDelay), ph.textDur),
                    ph.holdAfterText), ph.textOutDur), ph.collapseDur)

\* a bug NewsPhases could have: the collapse is not adjusted to the remainder
NewsPhases_NoFill(available) == NewsScaled(available)

\* the six phase durations for an allotted time of available ms
NewsPhases(available) ==
  The({ The({ FillCollapse(ph, av, sumSoFar) : sumSoFar \in {SumOfPhases(ph)} }) :
          ph \in {NewsScaled(available)}, av \in {available} })

\* the relative timings derived from the phases
TimingsOf(ph, textStartRel, textVisibleAtRel, textOutStartRel, barCollapseStartRel) ==
  [textStartRel |-> textStartRel, textVisibleAtRel |-> textVisibleAtRel,
   textOutStartRel |-> textOutStartRel,
   barCollapseStartRel |-> barCollapseStartRel,
   totalDurationRel |-> JsAdd(barCollapseStartRel, ph.collapseDur)]

NewsTimings(ph) ==
  TimingsOf(ph,
    JsAdd(ph.growDur, ph.textDelay),
    JsAdd(JsAdd(ph.growDur, ph.textDelay), ph.textDur),
    JsAdd(JsAdd(JsAdd(ph.growDur, ph.textDelay), ph.textDur), ph.holdAfterText),
    JsAdd(JsAdd(JsAdd(JsAdd(ph.growDur, ph.textDelay), ph.textDur),
                ph.holdAfterText), ph.textOutDur))

\* what a call that returns before computing the phases reports
NewsNothing == [computed |-> FALSE, barDrawn |-> FALSE]

\* the guard without its test local > totalDurationRel
NewsResult_NoUpperGuard(startMs, endMs, available, ph, tm, local) ==
  [computed |-> TRUE, startMs |-> startMs, endMs |-> endMs,
   available |-> available, phases |-> ph, timings |-> tm, local |-> local,
   barDrawn |-> ~JsLt(local, Whole(0))]

\* the timing a call computes, and whether it gets past the guard
\* if (local < 0 || local > totalDurationRel) return; and so fills the bar
NewsResult(startMs, endMs, available, ph, tm, local) ==
  [computed |-> TRUE, startMs |-> startMs, endMs |-> endMs,
   available |-> available, phases |-> ph, timings |-> tm, local |-> local,
   barDrawn |-> ~(JsLt(local, Whole(0)) \/ JsGt(local, tm.totalDurationRel))]

NewsWithPhases(startMs, endMs, available, ph, t) ==
  The({ NewsResult(startMs, endMs, available, ph, tm, local) :
          tm \in {NewsTimings(ph)}, local \in {JsSub(Whole(t), startMs)} })

NewsWithin(startMs, endMs, t) ==
  The({ The({ NewsWithPhases(startMs, endMs, available, ph, t) :
                ph \in {NewsPhases(available)} }) :
          available \in {NewsAvailable(startMs, endMs)} })

\* drawNewsTitle up to its guard on local: the timing, and whether it goes on
NewsTimingAt(proj, t) ==
  The({ IF i = 0 THEN NewsNothing
        ELSE IF ~Truthy(proj.overlays[i].newsTitle) THEN NewsNothing
        ELSE The({ NewsWithin(startMs, endMs, t) :
                     startMs \in {NewsStartMs(proj.overlays[i])},
                     endMs \in {NewsEndMs(proj.overlays[i])} }) :
          i \in {NewsOverlayIndex(proj.overlays)} })

\* the geometry of the bar: its heights, the top it starts at, its fixed bottom
barInitH == 146

barFinalH == 473

initTop == 1396

barBottom == initTop + barInitH

\* barH and barAlpha for the progress t of the height
BarAt(t, barAlpha) ==
  [barH |-> lerp(Whole(barInitH), Whole(barFinalH), t), barAlpha |-> barAlpha]

\* the bar while it grows: t = Easings.easeOut(Math.min(1, local / growDur))
BarGrowing(ph, local) ==
  The({ BarAt(t, t) :
          t \in {Easings("easeOut", MathMin(Whole(1), JsDiv(local, ph.growDur)))} })

\* the bar while it collapses: t2 is the linear progress, t = 1 - easeOut(t2)
BarCollapsing(ph, tm, local) ==
  The({ BarAt(JsSub(Whole(1), Easings("easeOut", t2)),
              MathMax(Whole(0), JsSub(Whole(1), t2))) :
          t2 \in {MathMin(Whole(1),
                          JsDiv(JsSub(local, tm.barCollapseStartRel), ph.collapseDur))} })

\* the current height of the bar and its alpha at local
NewsBar(ph, tm, local) ==
  IF JsLe(local, ph.growDur) THEN BarGrowing(ph, local)
  ELSE IF JsGe(local, tm.barCollapseStartRel) THEN BarCollapsing(ph, tm, local)
  ELSE [barH |-> Whole(barFinalH), barAlpha |-> Whole(1)]

\* the progress of a text fade that began at from and takes dur
TextFadeT(local, from, dur) == MathMin(Whole(1), JsDiv(JsSub(local, from), dur))

\* textAlpha with a fade-out that is not eased
NewsTextAlpha_LinearOut(ph, tm, local) ==
  IF JsLt(local, tm.textStartRel) THEN Whole(0)
  ELSE IF JsLe(local, JsAdd(tm.textStartRel, ph.textDur))
  THEN Easings("easeInOut", TextFadeT(local, tm.textStartRel, ph.textDur))
  ELSE IF JsLt(local, tm.textOutStartRel) THEN Whole(1)
  ELSE IF JsLe(local, JsAdd(tm.textOutStartRel, ph.textOutDur))
  THEN JsSub(Whole(1), TextFadeT(local, tm.textOutStartRel, ph.textOutDur))
  ELSE Whole(0)

\* textAlpha at local
NewsTextAlpha(ph, tm, local) ==
  IF JsLt(local, tm.textStartRel) THEN Whole(0)
  ELSE IF JsGe(local, tm.textStartRel) /\ JsLe(local, JsAdd(tm.textStartRel, ph.textDur))
  THEN Easings("easeInOut", TextFadeT(local, tm.textStartRel, ph.textDur))
  ELSE IF JsGt(local, JsAdd(tm.textStartRel, ph.textDur))
            /\ JsLt(local, tm.textOutStartRel)
  THEN Whole(1)
  ELSE IF JsGe(local, tm.textOutStartRel)
            /\ JsLe(local, JsAdd(tm.textOutStartRel, ph.textOutDur))
  THEN JsSub(Whole(1),
             Easings("easeInOut", TextFadeT(local, tm.textOutStartRel, ph.textOutDur)))
  ELSE Whole(0)

\* the bar drawn from the top it starts at, whatever its height
NewsDrawing_TopFixed(bar, textAlpha) ==
  [barH |-> bar.barH, barAlpha |-> bar.barAlpha,
   barY |-> Whole(initTop),
   barDrawnH |-> MathMax(Whole(1), MathRound(bar.barH)),
   textAlpha |-> textAlpha, textDrawn |-> ~JsLe(textAlpha, Whole(0))]

\* what is drawn: the bar at barY of height Math.max(1, Math.round(barH)) with
\* barAlpha, and the text unless textAlpha <= 0
NewsDrawing(bar, textAlpha) ==
  [barH |-> bar.barH, barAlpha |-> bar.barAlpha,
   barY |-> MathRound(JsSub(Whole(barBottom), bar.barH)),
   barDrawnH |-> MathMax(Whole(1), MathRound(bar.barH)),
   textAlpha |-> textAlpha, textDrawn |-> ~JsLe(textAlpha, Whole(0))]

\* a call that returned at one of its guards has drawn nothing
NoDrawing ==
  [barH |-> Undef, barAlpha |-> Undef, barY |-> Undef, barDrawnH |-> Undef,
   textAlpha |-> Undef, textDrawn |-> FALSE]

\* the timing r of a call together with what the call drew
WithDrawing(r, drawing) ==
  [computed |-> TRUE, startMs |-> r.startMs, endMs |-> r.endMs,
   available |-> r.available, phases |-> r.phases, timings |-> r.timings,
   local |-> r.local, barDrawn |-> r.barDrawn, drawing |-> drawing]

\* the call that got to r, carried on past the guard on local
NewsDrawn(r) ==
  IF ~r.computed THEN [computed |-> FALSE, barDrawn |-> FALSE, drawing |-> NoDrawing]
  ELSE IF ~r.barDrawn THEN WithDrawing(r, NoDrawing)
  ELSE The({ WithDrawing(r, NewsDrawing(bar, textAlpha)) :
               bar \in {NewsBar(r.phases, r.timings, r.local)},
               textAlpha \in {NewsTextAlpha(r.phases, r.timings, r.local)} })

\* drawNewsTitle(ctx, project, t, W, H)
drawNewsTitle(proj, t) == The({ NewsDrawn(r) : r \in {NewsTimingAt(proj, t)} })

----------------------------------------------------------------------------
(* fadeAlpha, buildActiveObjects, the subtitle lookup *)

FadeOf(localT, durMs, fi, fo) ==
  IF JsGt(fi, Whole(0)) /\ JsLt(localT, fi) THEN JsDiv(localT, fi)
  ELSE IF JsGt(fo, Whole(0)) /\ JsGt(localT, JsSub(durMs, fo))
  THEN MathMax(Whole(0), JsDiv(JsSub(durMs, localT), fo))
  ELSE Whole(1)

\* fadeAlpha(localT, durMs, fade); fade is an animation object, never falsy
fadeAlpha(localT, durMs, fade) ==
  The({ FadeOf(l, d, fi, fo) :
          l \in {localT}, d \in {durMs},
          fi \in {JsMul(JsOr(fade.in, Whole(0)), Whole(1000))},
          fo \in {JsMul(JsOr(fade.out, Whole(0)), Whole(1000))} })

\* anim.easing || "linear"
EasingOf(anim) == JsOr(anim.easing, Str("linear"))

\* Easings[name] is a function: calling anything else throws a TypeError
EasingDefined(anim) ==
  \E name \in {EasingOf(anim)} : name.k = "str" /\ name.s \in EasingNames

\* Easings[anim.easing || "linear"](Math.min(1, Math.max(0, local / dur)))
EasedT(anim, local, dur) ==
  Easings(EasingOf(anim).s,
          MathMin(Whole(1), MathMax(Whole(0), JsDiv(local, dur))))

ZoomOf(acc, anim, t) ==
  [acc EXCEPT !.scale = lerp(JsOr(anim.from, Whole(1)), JsOr(anim.to, Whole(1)), t)]

MoveOf(acc, anim, t) ==
  [acc EXCEPT !.tx = lerp(JsOr(anim.fromX, Whole(0)), JsOr(anim.toX, Whole(0)), t),
              !.ty = lerp(JsOr(anim.fromY, Whole(0)), JsOr(anim.toY, Whole(0)), t)]

\* a bug the loop could have: a fade replaces alpha instead of scaling it
ApplyAnimation_FadeReplaces(acc, anim, local, dur) ==
  IF acc.threw THEN acc
  ELSE IF anim.type = Str("zoom")
  THEN IF ~EasingDefined(anim) THEN [acc EXCEPT !.threw = TRUE]
       ELSE The({ ZoomOf(acc, anim, t) : t \in {EasedT(anim, local, dur)} })
  ELSE IF anim.type = Str("move")
  THEN IF ~EasingDefined(anim) THEN [acc EXCEPT !.threw = TRUE]
       ELSE The({ MoveOf(acc, anim, t) : t \in {EasedT(anim, local, dur)} })
  ELSE IF anim.type = Str("fade")
  THEN [acc EXCEPT !.alpha = fadeAlpha(local, dur, anim)]
  ELSE acc

\* one pass of the loop over o.animations; acc.threw once a call has thrown
ApplyAnimation(acc, anim, local, dur) ==
  IF acc.threw THEN acc
  ELSE IF anim.type = Str("zoom")
  THEN IF ~EasingDefined(anim) THEN [acc EXCEPT !.threw = TRUE]
       ELSE The({ ZoomOf(acc, anim, t) : t \in {EasedT(anim, local, dur)} })
  ELSE IF anim.type = Str("move")
  THEN IF ~EasingDefined(anim) THEN [acc EXCEPT !.threw = TRUE]
       ELSE The({ MoveOf(acc, anim, t) : t \in {EasedT(anim, local, dur)} })
  ELSE IF anim.type = Str("fade")
  THEN [acc EXCEPT !.alpha = JsMul(acc.alpha, fadeAlpha(local, dur, anim))]
  ELSE acc

\* scale, tx, ty and alpha before the loop over o.animations
NoTransform ==
  [scale |-> Whole(1), tx |-> Whole(0), ty |-> Whole(0), alpha |-> Whole(1),
   threw |-> FALSE]

\* the loop over o.animations
RECURSIVE ApplyAnimations(_, _, _)
ApplyAnimations(anims, local, dur) ==
  IF anims = <<>> THEN NoTransform
  ELSE The({ ApplyAnimation(acc, anims[Len(anims)], local, dur) :
               acc \in {ApplyAnimations(SubSeq(anims, 1, Len(anims) - 1), local, dur)} })

\* the entry pushed for object o of a scene
SceneEntry(o, tr) ==
  [type |-> o.type, id |-> o.id, src |-> o.src, x |-> o.x, y |-> o.y, w |-> o.w,
   h |-> o.h, z |-> JsOr(o.z, Whole(0)), a |-> tr.alpha, scale |-> tr.scale,
   tx |-> tr.tx, ty |-> tr.ty, style |-> o.style, text |-> o.text]

\* the entry pushed for overlay ov
OverlayEntry(ov) ==
  [type |-> Str("image"), id |-> Undef, src |-> ov.src, x |-> ov.x, y |-> ov.y,
   w |-> ov.w, h |-> ov.h, z |-> JsOr(ov.z, Whole(100)),
   a |-> JsNullish(ov.opacity, Whole(1)), scale |-> Undef, tx |-> Undef,
   ty |-> Undef, style |-> Undef, text |-> Undef]

\* a bug OutOfWindow could have: the end of the window is not tested
OutOfWindow_StartOnly(t, w) ==
  JsLt(Whole(t), JsMul(w.start, Whole(1000)))

\* a bug OutOfWindow could have: the end of the window is still inside it
OutOfWindow_Closed(t, w) ==
  JsLt(Whole(t), JsMul(w.start, Whole(1000))) \/ JsGt(Whole(t), JsMul(w.end, Whole(1000)))

\* the test that skips a scene or an overlay: ms < start * 1000 || ms >= end * 1000
OutOfWindow(t, w) ==
  JsLt(Whole(t), JsMul(w.start, Whole(1000))) \/ JsGe(Whole(t), JsMul(w.end, Whole(1000)))

Threw == [threw |-> TRUE, list |-> <<>>]

Returned(list) == [threw |-> FALSE, list |-> list]

\* the entry of object o pushed after those before it, unless something threw
PushObject(before, o, tr) ==
  IF before.threw \/ tr.threw THEN Threw
  ELSE Returned(Append(before.list, SceneEntry(o, tr)))

\* the loop over sc.objects, at local of dur
RECURSIVE SceneEntries(_, _, _)
SceneEntries(objs, local, dur) ==
  IF objs = <<>> THEN Returned(<<>>)
  ELSE The({ PushObject(before, objs[Len(objs)], tr) :
               before \in {SceneEntries(SubSeq(objs, 1, Len(objs) - 1), local, dur)},
               tr \in {ApplyAnimations(objs[Len(objs)].animations, local, dur)} })

\* the entries of scene sc at t
SceneAt(sc, t) ==
  IF OutOfWindow(t, sc) THEN Returned(<<>>)
  ELSE The({ SceneEntries(sc.objects, local, dur) :
               local \in {JsSub(Whole(t), JsMul(sc.start, Whole(1000)))},
               dur \in {JsMul(JsSub(sc.end, sc.start), Whole(1000))} })

Joined(before, here) ==
  IF before.threw \/ here.threw THEN Threw ELSE Returned(before.list \o here.list)

\* the loop over project.videoTrack
RECURSIVE TrackEntries(_, _)
TrackEntries(scenes, t) ==
  IF scenes = <<>> THEN Returned(<<>>)
  ELSE The({ Joined(before, here) :
               before \in {TrackEntries(SubSeq(scenes, 1, Len(scenes) - 1), t)},
               here \in {SceneAt(scenes[Len(scenes)], t)} })

\* the loop over project.overlays
RECURSIVE OverlayEntries(_, _)
OverlayEntries(overlays, t) ==
  IF overlays = <<>> THEN <<>>
  ELSE The({ IF OutOfWindow(t, overlays[Len(overlays)]) THEN before
             ELSE Append(before, OverlayEntry(overlays[Len(overlays)])) :
               before \in {OverlayEntries(SubSeq(overlays, 1, Len(overlays) - 1), t)} })

\* the comparator of the final sort: (a.z || 0) - (b.z || 0)
CompareZ(a, b) == JsSub(JsOr(a.z, Whole(0)), JsOr(b.z, Whole(0)))

\* a bug the sort could have: an entry goes before those it compares equal to
InsertByZ_Unstable(sorted, e) ==
  LET Before(x) == JsLt(CompareZ(x, e), Whole(0))
      NotBefore(x) == ~JsLt(CompareZ(x, e), Whole(0))
  IN  SelectSeq(sorted, Before) \o <<e>> \o SelectSeq(sorted, NotBefore)

\* e put into the sorted list after every entry that does not compare greater
InsertByZ(sorted, e) ==
  LET NotAfter(x) == ~JsGt(CompareZ(x, e), Whole(0))
      After(x) == JsGt(CompareZ(x, e), Whole(0))
  IN  SelectSeq(sorted, NotAfter) \o <<e>> \o SelectSeq(sorted, After)

\* activeObjects.sort(...): Array.prototype.sort is stable
RECURSIVE SortByZ(_)
SortByZ(list) ==
  IF list = <<>> THEN <<>>
  ELSE The({ InsertByZ(sorted, e) :
               sorted \in {SortByZ(SubSeq(list, 1, Len(list) - 1))},
               e \in {list[Len(list)]} })

\* the list before the sort: the scenes' entries, then the overlays'
PushedObjects(proj, t) ==
  The({ IF tr.threw THEN Threw
        ELSE Returned(tr.list \o OverlayEntries(proj.overlays, t)) :
          tr \in {TrackEntries(proj.videoTrack, t)} })

\* buildActiveObjects(project, t): the sorted list, or threw
buildActiveObjects(proj, t) ==
  The({ IF pushed.threw THEN Threw ELSE Returned(SortByZ(pushed.list)) :
          pushed \in {PushedObjects(proj, t)} })

\* s is the subtitle at t: ms / 1000 >= s.start && ms / 1000 < s.end
SubtitleHit(s, t) ==
  /\ JsGe(JsDiv(Whole(t), Whole(1000)), s.start)
  /\ JsLt(JsDiv(Whole(t), Whole(1000)), s.end)

\* (project.subtitles || []).find(...): the index of the subtitle found, 0 if none
FindSubtitle(subtitles, t) ==
  IF \E i \in 1..Len(subtitles) : SubtitleHit(subtitles[i], t)
  THEN CHOOSE i \in 1..Len(subtitles) :
         SubtitleHit(subtitles[i], t) /\ \A j \in 1..(i - 1) : ~SubtitleHit(subtitles[j], t)
  ELSE 0

----------------------------------------------------------------------------
(* The project: scenes (videoTrack), overlays, subtitles *)

\* an overlay of project.overlays; the geometry is passed through unchanged
Overlay(src, start, end, z, opacity, newsTitle) ==
  [src |-> src, x |-> Whole(40), y |-> Whole(40), w |-> Whole(200), h |-> Whole(100),
   z |-> z, opacity |-> opacity, start |-> start, end |-> end,
   newsTitle |-> newsTitle]

\* an overlay of type "logo", which is the kind of overlay loadResources loads
Logo(src, start, end) ==
  [type |-> Str("logo"), src |-> src, x |-> Whole(40), y |-> Whole(40),
   w |-> Whole(200), h |-> Whole(100), z |-> Undef, opacity |-> Undef,
   start |-> start, end |-> end, newsTitle |-> Undef]

\* an animation of an object; a move's from and to are {x, y}
Animation(type, easing, from, to, fromX, fromY, toX, toY, in, out) ==
  [type |-> Str(type), easing |-> easing, from |-> from, to |-> to,
   fromX |-> fromX, fromY |-> fromY, toX |-> toX, toY |-> toY,
   in |-> in, out |-> out]

Zoom(easing, from, to) ==
  Animation("zoom", easing, from, to, Undef, Undef, Undef, Undef, Undef, Undef)

Move(easing, fromX, fromY, toX, toY) ==
  Animation("move", easing, Undef, Undef, fromX, fromY, toX, toY, Undef, Undef)

Fade(in, out) ==
  Animation("fade", Undef, Undef, Undef, Undef, Undef, Undef, Undef, in, out)

\* an object of a scene; the geometry, style and text are passed through unchanged
Object(type, id, z, animations) ==
  [type |-> Str(type), id |-> Str(id), src |-> Str(id), x |-> Whole(0),
   y |-> Whole(0), w |-> Whole(1080), h |-> Whole(1920), z |-> z,
   style |-> Undef, text |-> Undef, animations |-> animations]

Scene(start, end, objects) == [start |-> start, end |-> end, objects |-> objects]

Subtitle(start, end, text) == [start |-> start, end |-> end, text |-> Str(text)]

Project(scenes, overlays, subtitles) ==
  [videoTrack |-> scenes, overlays |-> overlays, subtitles |-> subtitles]

\* nothing has been called yet
NoRet == [computed |-> FALSE, barDrawn |-> FALSE]

\* no call is remembered yet
\* no resource map has an entry
NoResources == [images |-> {}, logos |-> {}, videos |-> {}]

\* a page that has drawn nothing, with nothing loaded, pending or playing
FreshPage ==
  /\ lastRendered = FALSE
  /\ canvas = <<>>
  /\ res = NoResources
  /\ run = <<>>
  /\ async = <<>>
  /\ audio = <<>>

NoCall == [called |-> FALSE, ms |-> 0, project |-> <<>>, ret |-> NoRet]

----------------------------------------------------------------------------
(* The banner under every allotted time *)

\* overlay ends 0..MaxShortEndMs ms are all tried, the longer ones by sample
MaxShortEndMs == 24

NewsEndMsValues ==
  (0..MaxShortEndMs) \cup {53, 530, 1000, 1024, 2650, 5299, 5300, 5301, 6000, 6300}

\* the timestamps at which the banner is drawn
NewsMs ==
  {0, 1, 5, 12, 999, 1000, 1001, 1012, 1013, 5300, 5301, 6000, 6300, 6301}

\* the progress of the bar's height is an exact fraction cubed: denominators
\* up to MaxDenominator keep every intermediate value below 2^31
MaxDenominator == 64

\* the progress local / dur, capped at 1, has a denominator within MaxDenominator
SmallProgress(local, dur) ==
  \E q \in {MathMin(Whole(1), JsDiv(local, dur))} : q.d <= MaxDenominator

\* the heights of the bar at t are numbers the 32-bit integers can hold
NewsExact(r) ==
  r.barDrawn =>
    /\ JsLe(r.local, r.phases.growDur) => SmallProgress(r.local, r.phases.growDur)
    /\ JsGe(r.local, r.timings.barCollapseStartRel) =>
         SmallProgress(JsSub(r.local, r.timings.barCollapseStartRel), r.phases.collapseDur)

NewsProjects ==
  { Project(<<>>, <<Overlay(Undef, start, end, Undef, Undef, Str("Breaking"))>>, <<>>) :
      start \in {Undef, Whole(0), Whole(1)},
      end \in {Undef} \cup { Num(e, 1000) : e \in NewsEndMsValues } }

InitBanner ==
  /\ project \in NewsProjects
  /\ ms = 0
  /\ op = "init"
  /\ ret = NoRet
  /\ remembered = NoCall
  /\ FreshPage

\* renderFrameInternal's call drawNewsTitle(ctx, project, ms, width, height)
\* for a timestamp among T
DrawNewsTitleAt(T) ==
  \E t \in T :
    /\ NewsExact(NewsTimingAt(project, t))
    /\ ms' = t
    /\ op' = "drawNewsTitle"
    /\ ret' = drawNewsTitle(project, t)
    /\ UNCHANGED <<project, remembered, pageVars, hostVars>>

DrawNewsTitle == DrawNewsTitleAt(NewsMs)

NextBanner == DrawNewsTitle

SpecBanner == InitBanner /\ [][NextBanner]_vars

\* a call of drawNewsTitle that got as far as computing the phases
NewsComputed == op = "drawNewsTitle" /\ ret.computed

\* C1: whenever 1 <= available <= 5300, the six phase durations sum exactly
\* to available (totalDurationRel = available).
C1_PhasesSumToAvailable ==
  (NewsComputed /\ JsLe(ret.available, Whole(5300)))
    => ret.timings.totalDurationRel = ret.available

\* C2: whenever available >= 5300, the six phases have their nominal
\* durations, the total is 5300, and nothing is drawn once ms - startMs > 5300.
C2_NominalWhenRoomy ==
  (NewsComputed /\ JsGe(ret.available, Whole(5300)))
    => /\ ret.phases =
            [growDur |-> Whole(NewsDEF.grow), textDelay |-> Whole(NewsDEF.delay),
             textDur |-> Whole(NewsDEF.textFade),
             holdAfterText |-> Whole(NewsDEF.hold),
             textOutDur |-> Whole(NewsDEF.textOut),
             collapseDur |-> Whole(NewsDEF.collapse)]
       /\ ret.timings.totalDurationRel = Whole(5300)
       /\ (JsGt(ret.local, Whole(5300)) => ~ret.barDrawn)

\* C2 as amended: whenever available >= 5300, grow, delay, textFade, hold and
\* textOut have their nominal durations and the collapse takes the rest,
\* 300 + (available - 5100); the total is available, and nothing is drawn once
\* ms - startMs > available.
C2_CollapseFillsRemainder ==
  (NewsComputed /\ JsGe(ret.available, Whole(5300)))
    => /\ ret.phases =
            [growDur |-> Whole(NewsDEF.grow), textDelay |-> Whole(NewsDEF.delay),
             textDur |-> Whole(NewsDEF.textFade),
             holdAfterText |-> Whole(NewsDEF.hold),
             textOutDur |-> Whole(NewsDEF.textOut),
             collapseDur |->
               JsAdd(Whole(NewsDEF.collapse),
                     JsSub(ret.available, Whole(defaultTotal)))]
       /\ ret.timings.totalDurationRel = ret.available
       /\ (JsGt(ret.local, ret.available) => ~ret.barDrawn)

\* the banner of an overlay longer than 5300 ms, asked for after its end
C2_Witness ==
  /\ NewsComputed
  /\ JsGt(ret.available, Whole(5300))
  /\ JsGt(ret.local, ret.available)
  /\ ~ret.barDrawn

----------------------------------------------------------------------------
(* The resolver and the subtitle lookup on families of projects *)

\* timestamps are tried every 250 ms, from 0 to 250 * MaxTick
MaxTick == 9

ResolverMs == { 250 * i : i \in 0..MaxTick }

\* a bug buildActiveObjects could have: it takes the animations it applies out
\* of the objects of the project
BuildActiveObjects_ConsumesAnimations ==
  \E t \in ResolverMs :
    /\ ms' = t
    /\ op' = "buildActiveObjects"
    /\ ret' = buildActiveObjects(project, t)
    /\ project' =
         [project EXCEPT !.videoTrack =
            [i \in 1..Len(project.videoTrack) |->
               [project.videoTrack[i] EXCEPT !.objects =
                  [k \in 1..Len(project.videoTrack[i].objects) |->
                     [project.videoTrack[i].objects[k] EXCEPT !.animations = <<>>]]]]]
    /\ UNCHANGED <<remembered, pageVars, hostVars>>

\* buildActiveObjects(project, ms), as renderFrameInternal calls it
BuildActiveObjects ==
  \E t \in ResolverMs :
    /\ ms' = t
    /\ op' = "buildActiveObjects"
    /\ ret' = buildActiveObjects(project, t)
    /\ UNCHANGED <<project, remembered, pageVars, hostVars>>

\* renderFrameInternal's lookup of the subtitle active at ms
SelectSubtitle ==
  \E t \in ResolverMs :
    /\ ms' = t
    /\ op' = "findSubtitle"
    /\ ret' = [index |-> FindSubtitle(project.subtitles, t)]
    /\ UNCHANGED <<project, remembered, pageVars, hostVars>>

NextResolver == BuildActiveObjects \/ SelectSubtitle

\* before the first call
NotCalled ==
  /\ ms = 0
  /\ op = "init"
  /\ ret = NoRet
  /\ remembered = NoCall
  /\ FreshPage

\* a call of buildActiveObjects that returned its list
Built == op = "buildActiveObjects" /\ ~ret.threw

IsOverlayEntry(e) == e.scale.k = "undef"

IsSceneEntry(e) == e.scale.k # "undef"

\* the values tried for a z
ZValues == {Undef, Whole(100), Whole(101)}

\* two scenes, the first with two objects, and two overlays, of every z
OrderProjects ==
  { Project(<<Scene(Whole(0), Whole(2),
                    <<Object("image", "a", z[1], <<>>), Object("text", "b", z[2], <<>>)>>),
              Scene(Whole(1), Whole(3), <<Object("video", "c", z[3], <<>>)>>)>>,
            <<Overlay(Str("logo1"), Whole(0), Whole(2), z[4], Undef, Undef),
              Overlay(Str("logo2"), Whole(1), Whole(3), z[5], Undef, Undef)>>,
            <<>>) :
      z \in [1..5 -> ZValues] }

InitOrder == project \in OrderProjects /\ NotCalled

SpecOrder == InitOrder /\ [][NextResolver]_vars

\* the entries of list whose z is v, in list order
WithZ(list, v) ==
  LET Same(e) == e.z = v
  IN  SelectSeq(list, Same)

\* C3: the returned list is sorted non-decreasing by z, and entries of equal
\* z keep their insertion order (scenes in order, their objects in order, then
\* the overlays in order), so scene entries come before overlay entries.
C3_SortedStable ==
  Built =>
    /\ \A i, j \in 1..Len(ret.list) :
         i < j => /\ ~JsGt(ret.list[i].z, ret.list[j].z)
                  /\ (ret.list[i].z = ret.list[j].z
                        => ~(IsOverlayEntry(ret.list[i]) /\ IsSceneEntry(ret.list[j])))
    /\ Len(ret.list) = Len(PushedObjects(project, ms).list)
    /\ \A i \in 1..Len(ret.list) :
         WithZ(ret.list, ret.list[i].z)
           = WithZ(PushedObjects(project, ms).list, ret.list[i].z)

\* a list the sort had to reorder, with a scene entry and an overlay entry of
\* the same z and two scene entries of the same z
C3_Witness ==
  /\ Built
  /\ ret.list # PushedObjects(project, ms).list
  /\ \E i, j \in 1..Len(ret.list) :
       /\ i < j
       /\ ret.list[i].z = ret.list[j].z
       /\ IsSceneEntry(ret.list[i])
       /\ IsOverlayEntry(ret.list[j])
  /\ \E i, j \in 1..Len(ret.list) :
       /\ i < j
       /\ ret.list[i].z = ret.list[j].z
       /\ ret.list[i].id = Str("a")
       /\ ret.list[j].id = Str("b")

----------------------------------------------------------------------------
(* Windows: one scene, one overlay and two subtitles of every window *)

\* window bounds in seconds; quarters are exact in binary floating point
WindowBounds == {Whole(0), Num(1, 4), Whole(1), Whole(2)}

\* the windows with start < end
Windows == { w \in [start : WindowBounds, end : WindowBounds] : JsLt(w.start, w.end) }

WindowProjects ==
  { Project(<<Scene(w1.start, w1.end, <<Object("image", "a", Undef, <<>>)>>)>>,
            <<Overlay(Str("logo"), w2.start, w2.end, Undef, Undef, Undef)>>,
            <<Subtitle(w3.start, w3.end, "one"), Subtitle(w4.start, w4.end, "two")>>) :
      w1 \in Windows, w2 \in Windows, w3 \in Windows, w4 \in Windows }

InitWindows == project \in WindowProjects /\ NotCalled

SpecWindows == InitWindows /\ [][NextResolver]_vars

\* start * 1000 <= t < end * 1000, for numeric bounds, in integer arithmetic
InWindowMs(t, w) ==
  /\ w.start.k = "num"
  /\ w.end.k = "num"
  /\ w.start.n * 1000 <= t * w.start.d
  /\ t * w.end.d < w.end.n * 1000

\* the returned list has an entry of the scene object called id
HasSceneEntry(id) ==
  \E i \in 1..Len(ret.list) : IsSceneEntry(ret.list[i]) /\ ret.list[i].id = id

\* the returned list has an entry of the overlay of source src
HasOverlayEntry(src) ==
  \E i \in 1..Len(ret.list) : IsOverlayEntry(ret.list[i]) /\ ret.list[i].src = src

\* C4: windows are half-open. An object of a scene, and an overlay, has an
\* entry in the list of buildActiveObjects at ms if and only if
\* start*1000 <= ms < end*1000 (so at ms = start*1000 and not at
\* ms = end*1000); the subtitle selected at ms is the first one with
\* start*1000 <= ms < end*1000; at an ms outside every window the list is
\* empty and no subtitle is selected.
C4_HalfOpenWindows ==
  /\ Built =>
       /\ \A i \in 1..Len(project.videoTrack) :
            \A k \in 1..Len(project.videoTrack[i].objects) :
              HasSceneEntry(project.videoTrack[i].objects[k].id)
                <=> InWindowMs(ms, project.videoTrack[i])
       /\ \A j \in 1..Len(project.overlays) :
            HasOverlayEntry(project.overlays[j].src) <=> InWindowMs(ms, project.overlays[j])
       /\ ( /\ \A i \in 1..Len(project.videoTrack) : ~InWindowMs(ms, project.videoTrack[i])
            /\ \A j \in 1..Len(project.overlays) : ~InWindowMs(ms, project.overlays[j]) )
            => ret.list = <<>>
  /\ op = "findSubtitle" =>
       /\ \A i \in 1..Len(project.subtitles) :
            ret.index = i
              <=> /\ InWindowMs(ms, project.subtitles[i])
                  /\ \A j \in 1..(i - 1) : ~InWindowMs(ms, project.subtitles[j])
       /\ (\A i \in 1..Len(project.subtitles) : ~InWindowMs(ms, project.subtitles[i]))
            => ret.index = 0

\* at ms = 1000 the scene that starts at 1 is in and the overlay that ends at 1
\* is out
C4_Witness ==
  /\ Built
  /\ ms = 1000
  /\ project.videoTrack[1].start = Whole(1)
  /\ project.overlays[1].end = Whole(1)
  /\ HasSceneEntry(Str("a"))
  /\ ~HasOverlayEntry(Str("logo"))

----------------------------------------------------------------------------
(* Overlays: one scene and one overlay, generic or news banner, of every z and
   opacity, with bounds that may be missing *)

\* the windows tried: [0, 2) and the same with a bound left out
MissingWindows ==
  { [start |-> Whole(0), end |-> Whole(2)], [start |-> Undef, end |-> Whole(2)],
    [start |-> Whole(0), end |-> Undef], [start |-> Undef, end |-> Undef] }

OverlayZValues == {Undef, Whole(0), Whole(0 - 1), Whole(5)}

OpacityValues == {Undef, Whole(0), Num(1, 2), Whole(1), Num(0 - 1, 2)}

\* a generic overlay has a src and no newsTitle, a news banner the reverse
OverlayKinds ==
  { [src |-> Str("logo"), newsTitle |-> Undef],
    [src |-> Undef, newsTitle |-> Str("Breaking")] }

OverlayProjects ==
  { Project(<<Scene(w1.start, w1.end, <<Object("image", "a", Undef, <<>>)>>)>>,
            <<Overlay(kind.src, w2.start, w2.end, z, opacity, kind.newsTitle)>>,
            <<>>) :
      w1 \in MissingWindows, w2 \in MissingWindows, z \in OverlayZValues,
      opacity \in OpacityValues, kind \in OverlayKinds }

InitOverlays == project \in OverlayProjects /\ NotCalled

SpecOverlays == InitOverlays /\ [][NextResolver]_vars

\* a start or an end is missing
MissingBound(w) == w.start.k = "undef" \/ w.end.k = "undef"

\* C5: a scene or an overlay whose start or end is missing is never active:
\* buildActiveObjects returns, without throwing, a list with no entry of the
\* scene's objects and no entry of the overlay, at every ms.
C5_MissingBoundsNeverActive ==
  op = "buildActiveObjects" =>
    /\ ~ret.threw
    /\ \A i \in 1..Len(project.videoTrack) :
         MissingBound(project.videoTrack[i]) =>
           \A k \in 1..Len(project.videoTrack[i].objects) :
             ~HasSceneEntry(project.videoTrack[i].objects[k].id)
    /\ \A j \in 1..Len(project.overlays) :
         MissingBound(project.overlays[j]) => ~HasOverlayEntry(project.overlays[j].src)

\* C9: only overlays that are not news banners get an entry: every overlay
\* entry of the returned list is the entry of an overlay without a string
\* newsTitle, at every ms.
C9_NoEntryForNewsBanner ==
  Built =>
    \A i \in 1..Len(ret.list) :
      IsOverlayEntry(ret.list[i]) =>
        \E j \in 1..Len(project.overlays) :
          /\ ~IsNewsOverlay(project.overlays[j])
          /\ project.overlays[j].src = ret.list[i].src

\* C10: the entry of an active generic overlay has the overlay's z when the
\* overlay has one (0 and negative values included) and 100 when it has none,
\* and as alpha the overlay's opacity when it has one (0 included), else 1.
C10_OverlayZAndOpacity ==
  Built =>
    \A j \in 1..Len(project.overlays) :
      (~IsNewsOverlay(project.overlays[j]) /\ InWindowMs(ms, project.overlays[j])) =>
        \E i \in 1..Len(ret.list) :
          /\ IsOverlayEntry(ret.list[i])
          /\ ret.list[i].src = project.overlays[j].src
          /\ ret.list[i].z = IF project.overlays[j].z.k = "undef" THEN Whole(100)
                             ELSE project.overlays[j].z
          /\ ret.list[i].a = IF project.overlays[j].opacity.k = "undef" THEN Whole(1)
                             ELSE project.overlays[j].opacity

----------------------------------------------------------------------------
(* Animations: one scene with one object, of every list of animations up to
   MaxAnimations long *)

MaxAnimations == 2

ZoomChoices ==
  { Zoom(Undef, Whole(1), Num(3, 2)), Zoom(Str("easeOut"), Whole(0), Whole(1)),
    Zoom(Str("easeInOut"), Whole(2), Whole(0)), Zoom(Str("bounce"), Whole(1), Whole(2)) }

MoveChoices ==
  { Move(Undef, Whole(0), Whole(0), Whole(100), Whole(0 - 50)),
    Move(Str("bounce"), Whole(0), Whole(0), Whole(100), Whole(100)) }

FadeChoices ==
  { Fade(Undef, Num(1, 2)), Fade(Num(1, 2), Num(1, 2)),
    Fade(Whole(0), Whole(3)), Fade(Num(1, 4), Whole(1)), Fade(Undef, Undef) }

AnimationChoices == ZoomChoices \cup MoveChoices \cup FadeChoices

AnimationLists ==
  UNION { [1..n -> AnimationChoices] : n \in 0..MaxAnimations }

\* the scene lasts one or two seconds
AnimProjects ==
  { Project(<<Scene(Whole(0), end, <<Object("image", "a", Undef, anims)>>)>>, <<>>, <<>>) :
      end \in {Whole(1), Whole(2)}, anims \in AnimationLists }

InitAnim == project \in AnimProjects /\ NotCalled

SpecAnim == InitAnim /\ [][NextResolver]_vars

\* the animation with an easing that is not defined resolved as linear
LinearFallback(anim) ==
  IF anim.type \in {Str("zoom"), Str("move")} /\ ~EasingDefined(anim)
  THEN [anim EXCEPT !.easing = Str("linear")]
  ELSE anim

\* the project with every undefined easing replaced by linear
WithLinearFallback(proj) ==
  [proj EXCEPT !.videoTrack =
     [i \in 1..Len(proj.videoTrack) |->
        [proj.videoTrack[i] EXCEPT !.objects =
           [k \in 1..Len(proj.videoTrack[i].objects) |->
              [proj.videoTrack[i].objects[k] EXCEPT !.animations =
                 [a \in 1..Len(proj.videoTrack[i].objects[k].animations) |->
                    LinearFallback(proj.videoTrack[i].objects[k].animations[a])]]]]]]

\* C6: a zoom or a move with an easing name that is not linear, easeInOut or
\* easeOut is resolved as if the easing were linear: buildActiveObjects does
\* not throw, returns what it returns for the project with linear in place of
\* the name, and every scale, tx and ty of a scene entry is a number.
C6_UnknownEasingIsLinear ==
  op = "buildActiveObjects" =>
    /\ ~ret.threw
    /\ ret = buildActiveObjects(WithLinearFallback(project), ms)
    /\ \A i \in 1..Len(ret.list) :
         IsSceneEntry(ret.list[i]) =>
           /\ ret.list[i].scale.k = "num"
           /\ ret.list[i].tx.k = "num"
           /\ ret.list[i].ty.k = "num"

\* the entry of the object called id in the returned list
EntryOf(id) ==
  ret.list[CHOOSE i \in 1..Len(ret.list) : IsSceneEntry(ret.list[i]) /\ ret.list[i].id = id]

\* the positions of the zooms in a list of animations
ZoomsIn(anims) == { a \in 1..Len(anims) : anims[a].type = Str("zoom") }

\* the last zoom of a list that has one
LastZoom(anims) ==
  anims[CHOOSE a \in ZoomsIn(anims) : \A b \in ZoomsIn(anims) : b <= a]

\* ms - start * 1000 and (end - start) * 1000 of a scene with whole bounds
LocalMs(sc) == ms - sc.start.n * 1000

DurMs(sc) == (sc.end.n - sc.start.n) * 1000

\* C7: the scale of an active scene object is lerp(from, to, easing(clamp(
\* local/dur, 0, 1))) of the last zoom of its animations, for every numeric
\* from and to (0 included), and 1 when it has no zoom.
C7_ScaleOfLastZoom ==
  Built =>
    \A i \in 1..Len(project.videoTrack) :
      InWindowMs(ms, project.videoTrack[i]) =>
        \A k \in 1..Len(project.videoTrack[i].objects) :
          LET o == project.videoTrack[i].objects[k]
          IN  IF ZoomsIn(o.animations) = {} THEN EntryOf(o.id).scale = Whole(1)
              ELSE (LastZoom(o.animations).from.k = "num"
                      /\ LastZoom(o.animations).to.k = "num") =>
                     EntryOf(o.id).scale =
                       lerp(LastZoom(o.animations).from, LastZoom(o.animations).to,
                            EasedT(LastZoom(o.animations),
                                   Whole(LocalMs(project.videoTrack[i])),
                                   Whole(DurMs(project.videoTrack[i]))))

\* seconds as whole milliseconds, 0 for a field that is missing
MsOf(v) == IF v.k = "num" THEN (v.n * 1000) \div v.d ELSE 0

\* what C8 says fadeAlpha is, on whole milliseconds
StatedFadeAlpha(local, dur, fin, fout) ==
  IF fin > 0 /\ local < fin THEN Num(local, fin)
  ELSE IF fout > 0 /\ local > dur - fout
  THEN (IF dur - local > 0 THEN Num(dur - local, fout) ELSE Whole(0))
  ELSE Whole(1)

\* the product of StatedFadeAlpha over the fades of a list of animations
RECURSIVE StatedAlpha(_, _, _)
StatedAlpha(anims, local, dur) ==
  IF anims = <<>> THEN Whole(1)
  ELSE LET rest == StatedAlpha(SubSeq(anims, 1, Len(anims) - 1), local, dur)
           last == anims[Len(anims)]
           f == StatedFadeAlpha(local, dur, MsOf(last.in), MsOf(last.out))
       IN  IF last.type = Str("fade") THEN Num(rest.n * f.n, rest.d * f.d) ELSE rest

\* C8: the alpha of an active scene object is the product, over its fades, of
\* fadeAlpha(local, dur, fade), which is local/finMs when finMs > 0 and
\* local < finMs, else max(0, (dur - local)/foutMs) when foutMs > 0 and
\* local > dur - foutMs, else 1; it lies in [0, 1]; and
\* fadeAlpha(0, 1000, {in: 0.5}) = 0, fadeAlpha(250, 1000, {in: 0.5}) = 1/2,
\* fadeAlpha(1000, 1000, {out: 0.5}) = 0.
C8_AlphaIsProductOfFades ==
  /\ Built =>
       \A i \in 1..Len(project.videoTrack) :
         InWindowMs(ms, project.videoTrack[i]) =>
           \A k \in 1..Len(project.videoTrack[i].objects) :
             LET o == project.videoTrack[i].objects[k]
             IN  /\ EntryOf(o.id).a = StatedAlpha(o.animations,
                                                  LocalMs(project.videoTrack[i]),
                                                  DurMs(project.videoTrack[i]))
                 /\ EntryOf(o.id).a.k = "num"
                 /\ 0 <= EntryOf(o.id).a.n
                 /\ EntryOf(o.id).a.n <= EntryOf(o.id).a.d
  /\ fadeAlpha(Whole(0), Whole(1000), Fade(Num(1, 2), Undef)) = Whole(0)
  /\ fadeAlpha(Whole(250), Whole(1000), Fade(Num(1, 2), Undef)) = Num(1, 2)
  /\ fadeAlpha(Whole(1000), Whole(1000), Fade(Undef, Num(1, 2))) = Whole(0)

\* 250 ms into a scene of one second an object with a fade that is still
\* fading in (1/2) and a fade that is already fading out (3/4) has alpha 3/8
C8_Witness ==
  /\ Built
  /\ ms = 250
  /\ project.videoTrack[1].end = Whole(1)
  /\ project.videoTrack[1].objects[1].animations
       = <<Fade(Num(1, 2), Num(1, 2)), Fade(Num(1, 4), Whole(1))>>
  /\ EntryOf(Str("a")).a = Num(3, 8)

----------------------------------------------------------------------------
(* Opacity below zero *)

\* C11: the entry of an active overlay with a negative opacity has alpha 0, so
\* no negative alpha reaches the drawing surface.
C11_NegativeOpacityClamped ==
  Built =>
    \A j \in 1..Len(project.overlays) :
      ( /\ InWindowMs(ms, project.overlays[j])
        /\ project.overlays[j].opacity.k = "num"
        /\ project.overlays[j].opacity.n < 0 ) =>
        \A i \in 1..Len(ret.list) :
          (IsOverlayEntry(ret.list[i]) /\ ret.list[i].src = project.overlays[j].src)
            => ret.list[i].a = Whole(0)

----------------------------------------------------------------------------
(* render.js: the ffmpeg arguments, the audio mix *)

\* 10^k
RECURSIVE TenTo(_)
TenTo(k) == IF k = 0 THEN 1 ELSE 10 * TenTo(k - 1)

\* the first digits decimals of r/d, 0 <= r < d, by long division, and what is
\* left to divide
RECURSIVE FixedDigits(_, _, _)
FixedDigits(r, d, digits) ==
  IF digits = 0 THEN [units |-> 0, rest |-> r]
  ELSE The({ [units |-> before.units * 10 + (before.rest * 10) \div d,
              rest |-> (before.rest * 10) % d] :
               before \in {FixedDigits(r, d, digits - 1)} })

\* x.toFixed(digits) of a number x >= 0, as the whole number of its last
\* decimal places: 0.5.toFixed(6) is 500000 of 6 digits
toFixed(x, digits) ==
  The({ [units |-> (x.n \div x.d) * TenTo(digits) + fd.units
                     + (IF 2 * fd.rest >= x.d THEN 1 ELSE 0),
         digits |-> digits] :
          fd \in {FixedDigits(x.n % x.d, x.d, digits)} })

\* Math.pow(10, x) to seven decimals, for the exponents gain / 20 of the gains
\* 0 and -6 dB
MathPow10(x) ==
  CASE x = Whole(0) -> Whole(1)
    [] x = Num(0 - 3, 10) -> Num(5011872, 10000000)

\* an audio track of audio.tracks, or the legacy audio.music
Track(src, offset, volumePercent, gain) ==
  [src |-> src, offset |-> offset, volumePercent |-> volumePercent, gain |-> gain]

\* no audio.music, or one without a src
NoMusic == Track(Undef, Undef, Undef, Undef)

\* the project as render.js reads it: the length, the scenes, the audio
RenderProject(videoLength, scenes, tracks, music) ==
  [project |-> [videoLength |-> videoLength, fps |-> Whole(30)],
   videoTrack |-> scenes, overlays |-> <<>>, subtitles |-> <<>>,
   audio |-> [tracks |-> tracks, music |-> music]]

\* Math.max(...proj.videoTrack.map((s) => s.end), 0)
RECURSIVE lastSceneSec(_)
lastSceneSec(scenes) ==
  IF scenes = <<>> THEN Whole(0)
  ELSE MathMax(lastSceneSec(SubSeq(scenes, 1, Len(scenes) - 1)), scenes[Len(scenes)].end)

\* proj.project.videoLength when it is a number above 0, else the end of the
\* last scene
totalSec(proj) ==
  IF TypeofNumber(proj.project.videoLength) /\ JsGt(proj.project.videoLength, Whole(0))
  THEN proj.project.videoLength
  ELSE lastSceneSec(proj.videoTrack)

\* Math.round((t.offset || 0) * 1000)
offsetMs(t) == MathRound(JsMul(JsOr(t.offset, Whole(0)), Whole(1000)))

\* a bug volFrac could have: the percentage is not clamped at 0
volFrac_NoClamp(t) ==
  IF TypeofNumber(t.volumePercent)
  THEN [units |-> (t.volumePercent.n * 10000) \div t.volumePercent.d, digits |-> 6]
  ELSE IF Truthy(t.gain) /\ TypeofNumber(t.gain)
  THEN toFixed(MathPow10(JsDiv(t.gain, Whole(20))), 6)
  ELSE [units |-> 1000000, digits |-> 6]

\* the track's gain as the text of a fraction with six decimals
volFrac(t) ==
  IF TypeofNumber(t.volumePercent)
  THEN toFixed(JsDiv(MathMax(Whole(0), t.volumePercent), Whole(100)), 6)
  ELSE IF Truthy(t.gain) /\ TypeofNumber(t.gain)
  THEN toFixed(MathPow10(JsDiv(t.gain, Whole(20))), 6)
  ELSE [units |-> 1000000, digits |-> 6]

\* a bug trackFilter could have: the frames, input 0, are not counted
trackFilter_InputFromZero(t, idx) ==
  The({ [input |-> idx, adelay |-> <<delay, delay>>, volume |-> volFrac(t),
         apad |-> TRUE, label |-> idx] :
          delay \in {offsetMs(t)} })

\* `[${inIndex}:a]adelay=${offsetMs}|${offsetMs},volume=${volFrac},apad[a${idx}]`
\* of the track at idx (from 0): the input read, the delay of each of the two
\* channels, the volume, the padding, the label written
trackFilter(t, idx) ==
  The({ [input |-> idx + 1, adelay |-> <<delay, delay>>, volume |-> volFrac(t),
         apad |-> TRUE, label |-> idx] :
          delay \in {offsetMs(t)} })

\* tracks.map(...).join(";"): the chains in list order
trackFilters(tracks) == [i \in 1..Len(tracks) |-> trackFilter(tracks[i], i - 1)]

\* tracks.map((_, idx) => `[a${idx}]`).join("")
amixInputs(tracks) == [i \in 1..Len(tracks) |-> i - 1]

\* a filter graph that is not there
NoGraph ==
  [kind |-> "none", chains |-> <<>>, amixFrom |-> <<>>, inputs |-> 0, normalize |-> 0,
   duration |-> "", atrim |-> <<>>, filters |-> <<>>]

\* `${trackFilters};${amixInputs}amix=inputs=${tracks.length}:normalize=0:
\* duration=longest,atrim=0:${projectDuration}[out]`
filterComplex(tracks, projectDuration) ==
  [kind |-> "mix", chains |-> trackFilters(tracks), amixFrom |-> amixInputs(tracks),
   inputs |-> Len(tracks), normalize |-> 0, duration |-> "longest",
   atrim |-> <<Whole(0), projectDuration>>, filters |-> <<>>]

\* one filter of the legacy chain: volume=x, apad or atrim=0:x
Filter(name, volume, atrim) == [name |-> name, volume |-> volume, atrim |-> atrim]

\* the filters of the legacy music: the volume only for a numeric gain
singleFilters(a, projectDuration) ==
  (IF TypeofNumber(a.gain)
   THEN <<Filter("volume", toFixed(MathPow10(JsDiv(a.gain, Whole(20))), 3), <<>>)>>
   ELSE <<>>)
    \o <<Filter("apad", [units |-> 0, digits |-> 0], <<>>),
         Filter("atrim", [units |-> 0, digits |-> 0], <<Whole(0), projectDuration>>)>>

\* `[0:v]null[v];[1:a]${singleFilters.join(",")}[out]`
singleComplex(a, projectDuration) ==
  [NoGraph EXCEPT !.kind = "single", !.filters = singleFilters(a, projectDuration)]

\* "anullsrc=channel_layout=stereo:sample_rate=44100": it has no duration
anullsrc == [NoGraph EXCEPT !.kind = "anullsrc"]

\* an argument of ffmpeg: a literal, or a text made of a value or of a graph
Arg(s) == [s |-> s, v |-> Undef, g |-> NoGraph]

ArgOf(s, v) == [s |-> s, v |-> v, g |-> NoGraph]

ArgGraph(s, g) == [s |-> s, v |-> Undef, g |-> g]

\* ff.push("-i", src) for each track
RECURSIVE trackInputs(_)
trackInputs(tracks) ==
  IF tracks = <<>> THEN <<>>
  ELSE trackInputs(SubSeq(tracks, 1, Len(tracks) - 1))
         \o <<Arg("-i"), ArgOf("path", tracks[Len(tracks)].src)>>

\* the arguments for audio.tracks
ffTracks(tracks, projectDuration) ==
  trackInputs(tracks)
    \o <<Arg("-filter_complex"), ArgGraph("graph", filterComplex(tracks, projectDuration)),
         Arg("-map"), Arg("0:v"), Arg("-map"), Arg("[out]")>>

\* the arguments for the legacy audio.music
ffMusic(a, projectDuration) ==
  (IF Truthy(a.offset) /\ JsGt(a.offset, Whole(0))
   THEN <<Arg("-itsoffset"), ArgOf("String", a.offset)>>
   ELSE <<>>)
    \o <<Arg("-i"), ArgOf("path", a.src),
         Arg("-filter_complex"), ArgGraph("graph", singleComplex(a, projectDuration)),
         Arg("-map"), Arg("[v]"), Arg("-map"), Arg("[out]")>>

\* Array.isArray(proj.audio?.tracks) && proj.audio.tracks.length > 0
HasTracks(proj) == proj.audio.tracks # <<>>

\* proj.audio?.music?.src, when there are no tracks
HasMusic(proj) == ~HasTracks(proj) /\ Truthy(proj.audio.music.src)

haveAudio(proj) == HasTracks(proj) \/ HasMusic(proj)

\* the arguments render.js hands to ffmpeg
ff(proj) ==
  <<Arg("-y"), Arg("-framerate"), ArgOf("String", proj.project.fps), Arg("-i"),
    Arg("frame_%06d.png")>>
    \o (IF HasTracks(proj) THEN ffTracks(proj.audio.tracks, totalSec(proj))
        ELSE IF HasMusic(proj) THEN ffMusic(proj.audio.music, totalSec(proj))
        ELSE <<>>)
    \o <<Arg("-c:v"), Arg("libx264"), Arg("-pix_fmt"), Arg("yuv420p"), Arg("-profile:v"),
         Arg("high"), Arg("-crf"), Arg("18"), Arg("-preset"), Arg("medium")>>
    \o (IF haveAudio(proj) THEN <<Arg("-c:a"), Arg("aac"), Arg("-b:a"), Arg("192k")>>
        ELSE <<Arg("-f"), Arg("lavfi"), Arg("-i"), ArgGraph("graph", anullsrc),
               Arg("-map"), Arg("0:v"), Arg("-map"), Arg("1:a"),
               Arg("-c:a"), Arg("aac"), Arg("-b:a"), Arg("192k")>>)
    \o (IF haveAudio(proj) THEN <<Arg("-shortest")>> ELSE <<>>)
    \o <<Arg("outPath")>>

----------------------------------------------------------------------------
(* The ffmpeg arguments for every audio of a family *)

\* audio.tracks has up to MaxTracks tracks
MaxTracks == 2

OffsetValues == {Undef, Whole(0), Whole(2), Num(5, 4)}

\* volumePercent and gain of a track
VolumeChoices ==
  { <<Undef, Undef>>, <<Whole(100), Undef>>, <<Whole(50), Undef>>, <<Whole(200), Undef>>,
    <<Whole(0 - 50), Undef>>, <<Undef, Whole(0)>>, <<Undef, Whole(0 - 6)>>,
    <<Whole(50), Whole(0 - 6)>> }

TrackChoices ==
  { Track(Str("a.mp3"), offset, vol[1], vol[2]) :
      offset \in OffsetValues, vol \in VolumeChoices }

TrackLists == UNION { [1..n -> TrackChoices] : n \in 0..MaxTracks }

\* a scene of two seconds; tracks with or without a legacy music beside them,
\* or a legacy music alone
MixProjects ==
  { RenderProject(videoLength, <<Scene(Whole(0), Whole(2), <<>>)>>, tracks, music) :
      videoLength \in {Undef, Whole(3)}, tracks \in TrackLists,
      music \in {NoMusic, Track(Str("m.mp3"), Whole(2), Whole(50), Undef)} }
    \cup
  { RenderProject(videoLength, <<Scene(Whole(0), Whole(2), <<>>)>>, <<>>, music) :
      videoLength \in {Undef, Whole(3)}, music \in TrackChoices }

InitMix == project \in MixProjects /\ NotCalled

\* render.js puts the arguments together and runs ffmpeg
AssembleFfmpeg ==
  /\ op = "init"
  /\ op' = "ffmpeg"
  /\ ret' = [args |-> ff(project)]
  /\ UNCHANGED <<project, ms, remembered, pageVars, hostVars>>

NextRender == AssembleFfmpeg

SpecMix == InitMix /\ [][NextRender]_vars

\* the arguments are put together
Assembled == op = "ffmpeg"

\* the positions of the filter graphs among the arguments
GraphsAt == { i \in 1..Len(ret.args) : ret.args[i].s = "graph" /\ ret.args[i].g.kind # "anullsrc" }

\* the filter graph of the arguments that have one
TheGraph == ret.args[CHOOSE i \in GraphsAt : TRUE].g

\* the delay C13 states, in whole ms: round(offset * 1000), 0 without an offset
StatedDelayMs(t) ==
  IF t.offset.k = "num" THEN (2 * t.offset.n * 1000 + t.offset.d) \div (2 * t.offset.d)
  ELSE 0

\* the fraction C12 states, in millionths; gains other than 0 and -6 dB are
\* none of its examples
StatedFraction(t) ==
  IF t.volumePercent.k = "num"
  THEN (IF t.volumePercent.n < 0 THEN 0
        ELSE (t.volumePercent.n * 10000) \div t.volumePercent.d)
  ELSE IF t.gain = Whole(0 - 6) THEN 501187
  ELSE 1000000

\* C12: in the track mix of render.js the gain fraction of a track is
\* max(0, volumePercent)/100 when volumePercent is a number (200 gives 2.0,
\* 50 gives 0.5), else 10^(gain/20) when gain is a number (0 gives 1.0, -6
\* gives 0.501187), else 1.0, written with six decimals, and is never negative.
C12_GainFraction ==
  (Assembled /\ HasTracks(project)) =>
    /\ Len(TheGraph.chains) = Len(project.audio.tracks)
    /\ \A i \in 1..Len(project.audio.tracks) :
         /\ TheGraph.chains[i].volume.digits = 6
         /\ TheGraph.chains[i].volume.units >= 0
         /\ TheGraph.chains[i].volume.units = StatedFraction(project.audio.tracks[i])

\* two tracks, one of a negative percentage and one of -6 dB, are mixed at 0
\* and at 0.501187
C12_Witness ==
  /\ Assembled
  /\ Len(project.audio.tracks) = 2
  /\ project.audio.tracks[1].volumePercent = Whole(0 - 50)
  /\ project.audio.tracks[2].gain = Whole(0 - 6)
  /\ project.audio.tracks[2].volumePercent = Undef
  /\ TheGraph.chains[1].volume.units = 0
  /\ TheGraph.chains[2].volume.units = 501187

\* the length the mix is trimmed to, as C13 states it: the project duration
StatedDuration ==
  IF project.project.videoLength.k = "num" /\ project.project.videoLength.n > 0
  THEN project.project.videoLength
  ELSE project.videoTrack[Len(project.videoTrack)].end

\* C13: for N > 0 tracks the arguments name the tracks' files as inputs 1..N
\* in list order after the frames (input 0), and the one filter graph has N
\* chains in list order, chain i reading input i with the delay
\* round(offset*1000) ms on both channels, then the track's gain, then apad,
\* into label i-1; the N labels feed one amix of N inputs with normalize=0 and
\* duration=longest, followed by atrim from 0 to the project duration.
C13_MixGraph ==
  (Assembled /\ HasTracks(project)) =>
    /\ Cardinality(GraphsAt) = 1
    /\ \A i \in GraphsAt : ret.args[i - 1].s = "-filter_complex"
    /\ { i \in 1..Len(ret.args) : ret.args[i].s = "-i" }
         = { 4 + 2 * k : k \in 0..Len(project.audio.tracks) }
    /\ TheGraph.kind = "mix"
    /\ Len(TheGraph.chains) = Len(project.audio.tracks)
    /\ \A i \in 1..Len(project.audio.tracks) :
         /\ ret.args[5 + 2 * i].v = project.audio.tracks[i].src
         /\ TheGraph.chains[i].input = i
         /\ TheGraph.chains[i].adelay
              = <<Whole(StatedDelayMs(project.audio.tracks[i])),
                  Whole(StatedDelayMs(project.audio.tracks[i]))>>
         /\ TheGraph.chains[i].volume.units = StatedFraction(project.audio.tracks[i])
         /\ TheGraph.chains[i].apad
         /\ TheGraph.chains[i].label = i - 1
    /\ TheGraph.amixFrom = [i \in 1..Len(project.audio.tracks) |-> i - 1]
    /\ TheGraph.inputs = Len(project.audio.tracks)
    /\ TheGraph.normalize = 0
    /\ TheGraph.duration = "longest"
    /\ TheGraph.atrim = <<Whole(0), StatedDuration>>

\* offsets 0 and 2 with 100 and 50 percent give the delays 0 and 2000 ms and
\* the gains 1.0 and 0.5
C13_Witness ==
  /\ Assembled
  /\ Len(project.audio.tracks) = 2
  /\ project.audio.tracks[1].offset = Whole(0)
  /\ project.audio.tracks[1].volumePercent = Whole(100)
  /\ project.audio.tracks[2].offset = Whole(2)
  /\ project.audio.tracks[2].volumePercent = Whole(50)
  /\ TheGraph.chains[1].adelay = <<Whole(0), Whole(0)>>
  /\ TheGraph.chains[2].adelay = <<Whole(2000), Whole(2000)>>
  /\ TheGraph.chains[1].volume.units = 1000000
  /\ TheGraph.chains[2].volume.units = 500000

\* C14: without tracks and without legacy music the arguments hold a silent
\* audio input, and they bound it to the project duration: by a duration of
\* the silent source, or by a limit on the output (-t, -to or -shortest).
C14_SilenceBounded ==
  (Assembled /\ ~haveAudio(project)) =>
    /\ \E i \in 1..Len(ret.args) : ret.args[i].g.kind = "anullsrc"
    /\ \/ \E i \in 1..Len(ret.args) : ret.args[i].s \in {"-shortest", "-t", "-to"}
       \/ \E i \in 1..Len(ret.args) :
            /\ ret.args[i].g.kind = "anullsrc"
            /\ (ret.args[i].g.duration # "" \/ ret.args[i].g.atrim # <<>>)

\* the same project with its legacy music as the only track
MusicAsTrack(proj) ==
  [proj EXCEPT !.audio = [tracks |-> <<proj.audio.music>>, music |-> NoMusic]]

\* the delay of the legacy music in ms: what -itsoffset shifts its input by
LegacyDelayMs(args) ==
  IF \E i \in 1..Len(args) : args[i].s = "-itsoffset"
  THEN MathRound(JsMul(args[(CHOOSE i \in 1..Len(args) : args[i].s = "-itsoffset") + 1].v,
                       Whole(1000)))
  ELSE Whole(0)

\* the gain of the legacy music in millionths: its volume filter, 1.0 without
LegacyGainMicros(graph) ==
  IF \E i \in 1..Len(graph.filters) : graph.filters[i].name = "volume"
  THEN LET f == graph.filters[CHOOSE i \in 1..Len(graph.filters) :
                                graph.filters[i].name = "volume"]
       IN  f.volume.units * TenTo(6 - f.volume.digits)
  ELSE 1000000

\* C15: a legacy audio.music and a list of the one track with the same src,
\* offset and volume field are rendered alike: the same delay and the same
\* gain fraction (to the three decimals the legacy form writes).
C15_LegacyMusicAsTrack ==
  (Assembled /\ HasMusic(project)) =>
    LET track == filterComplex(MusicAsTrack(project).audio.tracks, totalSec(project)).chains[1]
    IN  /\ LegacyDelayMs(ret.args) = track.adelay[1]
        /\ LegacyGainMicros(TheGraph) - track.volume.units <= 500
        /\ track.volume.units - LegacyGainMicros(TheGraph) <= 500

----------------------------------------------------------------------------
(* The resolver called again and again *)

\* two scenes of animated objects, and two overlays, with z unset or 100
PureProjects ==
  { Project(<<Scene(Whole(0), Whole(2),
                    <<Object("image", "a", z[1], <<Zoom(Str("easeOut"), Whole(0), Whole(1))>>),
                      Object("text", "b", z[2], <<Fade(Num(1, 2), Num(1, 2))>>)>>),
              Scene(Whole(1), Whole(3), <<Object("video", "c", z[3], <<>>)>>)>>,
            <<Overlay(Str("logo1"), Whole(0), Whole(2), z[4], Undef, Undef),
              Overlay(Str("logo2"), Whole(1), Whole(3), z[5], Num(1, 2), Undef)>>,
            <<Subtitle(Whole(0), Whole(1), "one")>>) :
      z \in [1..5 -> {Undef, Whole(100)}] }

InitPure == project \in PureProjects /\ NotCalled

\* the call of buildActiveObjects just made is remembered: the project as it
\* is, the ms, and what the call returned; every call after this is a later one
RememberCall ==
  /\ op = "buildActiveObjects"
  /\ ~remembered.called
  /\ remembered' = [called |-> TRUE, ms |-> ms, project |-> project, ret |-> ret]
  /\ op' = "remembered"
  /\ UNCHANGED <<project, ms, ret, pageVars, hostVars>>

NextPure == RememberCall \/ NextResolver

SpecPure == InitPure /\ [][NextPure]_vars

-----------------------------------------------------------------------------
(* The bar and the text of the banner, frame by frame *)

\* the first MaxDenseMs ms from 0 and from 1000 are all drawn
MaxDenseMs == 12

\* the timestamps of the frames: those, and one every 50 ms
BarMs ==
  (0..MaxDenseMs) \cup (1000..(1000 + MaxDenseMs)) \cup { 50 * i : i \in 0..130 }
    \cup {999, 5299, 5301, 6301}

\* banners of the nominal length, longer ones and shortened ones
BarProjects ==
  { Project(<<>>, <<Overlay(Undef, start, end, Undef, Undef, Str("Breaking"))>>, <<>>) :
      start \in {Undef, Whole(1)},
      end \in {Undef, Num(53, 10), Num(265, 100), Whole(6), Num(12, 1000)} }

InitBar ==
  /\ project \in BarProjects
  /\ ms = 0
  /\ op = "init"
  /\ ret = NoRet
  /\ remembered = NoCall
  /\ FreshPage

DrawBar == DrawNewsTitleAt(BarMs)

NextBar == DrawBar

SpecBar == InitBar /\ [][NextBar]_vars

\* C17: with local = ms - startMs, a call whose local is below 0 or above
\* totalDurationRel draws nothing: neither the bar nor the text.
C17_NothingOutsideTotal ==
  (NewsComputed /\ (JsLt(ret.local, Whole(0)) \/ JsGt(ret.local, ret.timings.totalDurationRel)))
    => (~ret.barDrawn /\ ret.drawing = NoDrawing)

\* a frame after the end of the banner, and one before its start
C17_Witness ==
  /\ NewsComputed
  /\ JsGt(ret.local, ret.timings.totalDurationRel)
  /\ ret.drawing = NoDrawing

C17_WitnessBefore ==
  /\ NewsComputed
  /\ JsLt(ret.local, Whole(0))
  /\ ret.drawing = NoDrawing

\* the boundaries of the text's fades, from the phase durations
TextStart(ph) == JsAdd(ph.growDur, ph.textDelay)

TextFullyVisible(ph) == JsAdd(TextStart(ph), ph.textDur)

TextOutStart(ph) == JsAdd(TextFullyVisible(ph), ph.holdAfterText)

TextOutEnd(ph) == JsAdd(TextOutStart(ph), ph.textOutDur)

\* easeInOut of the part of dur that has passed since from
EasedSince(local, from, dur) ==
  Easings("easeInOut", JsDiv(JsSub(local, from), dur))

\* the text's alpha at local is as stated, piece by piece
StatedTextAlpha(ph, local, alpha) ==
  /\ JsLt(local, TextStart(ph)) => alpha = Whole(0)
  /\ (JsGe(local, TextStart(ph)) /\ JsLe(local, TextFullyVisible(ph)))
       => alpha = EasedSince(local, TextStart(ph), ph.textDur)
  /\ (JsGt(local, TextFullyVisible(ph)) /\ JsLt(local, TextOutStart(ph)))
       => alpha = Whole(1)
  /\ (JsGe(local, TextOutStart(ph)) /\ JsLe(local, TextOutEnd(ph)))
       => alpha = JsSub(Whole(1), EasedSince(local, TextOutStart(ph), ph.textOutDur))
  /\ JsGt(local, TextOutEnd(ph)) => alpha = Whole(0)

\* C18: the alpha of the banner's text is 0 before textStart, the eased
\* fade-in up to textStart + textDur, 1 strictly between that and textOutStart,
\* 1 minus the eased fade-out up to textOutStart + textOutDur and 0 afterwards;
\* it lies in [0, 1], and the text is drawn only when it is above 0.
C18_TextAlpha ==
  (NewsComputed /\ ret.barDrawn) =>
    /\ StatedTextAlpha(ret.phases, ret.local, ret.drawing.textAlpha)
    /\ JsGe(ret.drawing.textAlpha, Whole(0))
    /\ JsLe(ret.drawing.textAlpha, Whole(1))
    /\ ret.drawing.textDrawn <=> JsGt(ret.drawing.textAlpha, Whole(0))

\* a frame inside the fade-out, with the text partly visible
C18_Witness ==
  /\ NewsComputed
  /\ ret.barDrawn
  /\ JsGt(ret.local, TextOutStart(ret.phases))
  /\ JsLt(ret.local, TextOutEnd(ret.phases))
  /\ JsGt(ret.drawing.textAlpha, Whole(0))
  /\ JsLt(ret.drawing.textAlpha, Whole(1))
  /\ ret.drawing.textDrawn

\* a frame inside the fade-in, and a frame before it, where no text is drawn
C18_WitnessFadeIn ==
  /\ NewsComputed
  /\ ret.barDrawn
  /\ JsGt(ret.local, TextStart(ret.phases))
  /\ JsLt(ret.local, TextFullyVisible(ret.phases))
  /\ JsLt(ret.drawing.textAlpha, Whole(1))
  /\ ret.drawing.textDrawn

C18_WitnessNoText ==
  /\ NewsComputed
  /\ ret.barDrawn
  /\ ~ret.drawing.textDrawn

\* C19: at every frame at which the bar is drawn, its bottom edge is at the
\* same coordinate: barY plus the drawn height is 1542, that is initTop plus
\* the initial height.
C19_BottomEdgeFixed ==
  (NewsComputed /\ ret.barDrawn) =>
    /\ JsAdd(ret.drawing.barY, ret.drawing.barDrawnH) = Whole(1542)
    /\ initTop + barInitH = 1542

\* a frame at which the bar grows and its height is not a whole number
C19_Witness ==
  /\ NewsComputed
  /\ ret.barDrawn
  /\ JsLt(ret.local, ret.phases.growDur)
  /\ ret.drawing.barH.d > 1
  /\ JsGt(ret.drawing.barDrawnH, Whole(barInitH))

\* a frame at which the bar collapses and its height is not a whole number
C19_WitnessCollapse ==
  /\ NewsComputed
  /\ ret.barDrawn
  /\ JsGt(ret.local, ret.timings.barCollapseStartRel)
  /\ ret.drawing.barH.d > 1
  /\ JsLt(ret.drawing.barDrawnH, Whole(barFinalH))

\* the part of the way from the initial to the final height that barH has gone
HeightProgress(barH) ==
  JsDiv(JsSub(barH, Whole(barInitH)), Whole(barFinalH - barInitH))

\* C20: at every frame of the grow phase and of the collapse phase, the
\* bar's alpha equals the progress of its height,
\* (barH - initial height) / (final height - initial height).
C20_AlphaMirrorsHeight ==
  (/\ NewsComputed
   /\ ret.barDrawn
   /\ \/ JsLe(ret.local, ret.phases.growDur)
      \/ JsGe(ret.local, ret.timings.barCollapseStartRel))
    => ret.drawing.barAlpha = HeightProgress(ret.drawing.barH)

\* the same for the grow phase alone
C20_AlphaMirrorsHeightGrowing ==
  (NewsComputed /\ ret.barDrawn /\ JsLe(ret.local, ret.phases.growDur))
    => ret.drawing.barAlpha = HeightProgress(ret.drawing.barH)

-----------------------------------------------------------------------------
(* Scenes and overlays that end no later than they start *)

\* every window over the bounds, those with end <= start included
AllWindows == [start : WindowBounds, end : WindowBounds]

\* end <= start
IsDegenerate(w) == w.start.k = "num" /\ w.end.k = "num" /\ JsLe(w.end, w.start)

DegenerateAnimations ==
  { <<Zoom(Undef, Whole(1), Whole(2))>>,
    <<Move(Str("easeOut"), Whole(0), Whole(0), Whole(100), Whole(50)),
      Fade(Num(1, 4), Num(1, 4))>>,
    <<Fade(Undef, Whole(1)), Zoom(Str("easeInOut"), Whole(2), Whole(1))>> }

DegenerateOverlayWindows ==
  { [start |-> Whole(0), end |-> Whole(1)], [start |-> Whole(1), end |-> Whole(1)],
    [start |-> Whole(2), end |-> Whole(0)] }

\* a scene of any window with an animated object, a scene of two seconds, and
\* an overlay; init takes window.__PROJECT__ as it is, and so does main
DegenerateProjects ==
  { Project(<<Scene(w1.start, w1.end, <<Object("image", "a", Undef, anims)>>),
              Scene(Whole(0), Whole(2), <<Object("text", "b", Undef, <<>>)>>)>>,
            <<Overlay(Str("logo"), w2.start, w2.end, Undef, Undef, Undef)>>,
            <<>>) :
      w1 \in AllWindows, w2 \in DegenerateOverlayWindows, anims \in DegenerateAnimations }

InitDegenerate == project \in DegenerateProjects /\ NotCalled

SpecDegenerate == InitDegenerate /\ [][NextResolver]_vars

HasDegenerateWindow(proj) ==
  \/ \E i \in 1..Len(proj.videoTrack) : IsDegenerate(proj.videoTrack[i])
  \/ \E j \in 1..Len(proj.overlays) : IsDegenerate(proj.overlays[j])

\* C21: a project with a scene or an overlay whose end <= start is rejected
\* when it is loaded: no frame of it is ever resolved.
C21_DegenerateRejected ==
  HasDegenerateWindow(project) => op = "init"

\* the scale, the offsets and the alpha of entry e are finite numbers
FiniteEntry(e) ==
  /\ e.scale.k \in {"num", "undef"}
  /\ e.tx.k \in {"num", "undef"}
  /\ e.ty.k \in {"num", "undef"}
  /\ e.a.k = "num"

-----------------------------------------------------------------------------
(* renderFrameInternal: what a call of renderFrame(ms) does to the canvas *)

\* a drawing call made on the canvas at t; painted is whether it painted
DrawCall(cmd, what, z, t, painted) ==
  [cmd |-> cmd, what |-> what, z |-> z, at |-> t, painted |-> painted]

\* ctx.fillRect(0, 0, width, height) with the background
FillBackground(t) == DrawCall("fillRect", Undef, Undef, t, TRUE)

\* hasRes of the active object ao
HasRes(ao, r) ==
  \/ ao.type = Str("image") /\ ao.src \in (r.images \cup r.logos)
  \/ ao.type = Str("video") /\ ao.src \in r.videos

\* anyHas
AnyHas(list, r) == \E i \in 1..Len(list) : HasRes(list[i], r)

\* newsZ of the banner overlay ov
NewsZ(ov) == IF TypeofNumber(ov.z) THEN ov.z ELSE Whole(100)

\* the call drawNewsTitle(ctx, project, ms, width, height): it paints when it
\* gets past its guards
DrawNews(proj, t) ==
  The({ DrawCall("drawNewsTitle", Undef, Undef, t, r.barDrawn) :
          r \in {NewsTimingAt(proj, t)} })

\* the drawing of the active object o: an image or a video only when its
\* resource is loaded, a text always
DrawObject(o, r, t) ==
  IF o.type = Str("image")
  THEN IF o.src \in (r.images \cup r.logos)
       THEN <<DrawCall("drawImage", o.src, JsOr(o.z, Whole(0)), t, TRUE)>> ELSE <<>>
  ELSE IF o.type = Str("video")
  THEN IF o.src \in r.videos
       THEN <<DrawCall("drawVideo", o.src, JsOr(o.z, Whole(0)), t, TRUE)>> ELSE <<>>
  ELSE IF o.type = Str("text")
  THEN <<DrawCall("fillText", o.id, JsOr(o.z, Whole(0)), t, TRUE)>>
  ELSE <<>>

\* the banner goes before o: newsOverlay && !newsDrawn && (o.z || 0) > (newsZ ?? 0)
NewsGoesBefore_OrEqual(o, proj, newsDrawn) ==
  \E i \in {NewsOverlayIndex(proj.overlays)} :
    i # 0 /\ ~newsDrawn /\ JsGe(JsOr(o.z, Whole(0)), NewsZ(proj.overlays[i]))

NewsGoesBefore(o, proj, newsDrawn) ==
  \E i \in {NewsOverlayIndex(proj.overlays)} :
    i # 0 /\ ~newsDrawn /\ JsGt(JsOr(o.z, Whole(0)), NewsZ(proj.overlays[i]))

\* one round of the loop over activeObjects
DrawNext(before, o, proj, r, t) ==
  IF NewsGoesBefore(o, proj, before.newsDrawn)
  THEN [calls |-> before.calls \o <<DrawNews(proj, t)>> \o DrawObject(o, r, t),
        newsDrawn |-> TRUE]
  ELSE [calls |-> before.calls \o DrawObject(o, r, t), newsDrawn |-> before.newsDrawn]

\* the loop over activeObjects
RECURSIVE DrawLoop(_, _, _, _)
DrawLoop(list, proj, r, t) ==
  IF list = <<>> THEN [calls |-> <<>>, newsDrawn |-> FALSE]
  ELSE The({ DrawNext(before, list[Len(list)], proj, r, t) :
               before \in {DrawLoop(SubSeq(list, 1, Len(list) - 1), proj, r, t)} })

\* the banner after the loop, if it has not been drawn in it
TrailingNews(loop, proj, t) ==
  IF NewsOverlayIndex(proj.overlays) # 0 /\ ~loop.newsDrawn
  THEN <<DrawNews(proj, t)>> ELSE <<>>

\* if (sub) drawSubtitle(ctx, width, height, sub.text)
DrawSub(proj, sub, t) ==
  IF sub = 0 THEN <<>>
  ELSE <<DrawCall("drawSubtitle", proj.subtitles[sub].text, Undef, t, TRUE)>>

\* the frame that is drawn: the background, the objects with the banner among
\* them, the subtitle
DrawnFrame(list, proj, r, sub, t) ==
  The({ <<FillBackground(t)>> \o loop.calls \o TrailingNews(loop, proj, t)
          \o DrawSub(proj, sub, t) :
          loop \in {DrawLoop(list, proj, r, t)} })

\* what a frame with no resource and no subtitle leaves of the canvas, with a
\* bug: the background is filled whatever window.__lastRendered is
EmptyFrame_AlwaysFills(last, cv, t) == <<FillBackground(t)>>

\* what a frame with no resource and no subtitle leaves of the canvas
EmptyFrame(last, cv, t) == IF ~last THEN <<FillBackground(t)>> ELSE cv

\* the outcome of a call: whether it threw, anyHas, the subtitle found, the
\* canvas and window.__lastRendered after it
FrameOutcome(threw, anyHas, sub, cv, last) ==
  [threw |-> threw, anyHas |-> anyHas, sub |-> sub, canvas |-> cv,
   lastRendered |-> last]

\* the call once activeObjects and sub are known
FrameOf(active, sub, proj, r, t, last, cv) ==
  IF active.threw THEN FrameOutcome(TRUE, FALSE, 0, cv, last)
  ELSE IF ~AnyHas(active.list, r) /\ sub = 0
  THEN FrameOutcome(FALSE, FALSE, 0, EmptyFrame(last, cv, t), last)
  ELSE FrameOutcome(FALSE, AnyHas(active.list, r), sub,
                    DrawnFrame(active.list, proj, r, sub, t), TRUE)

\* renderFrameInternal(ctx, project, res, ms, width, height, background) on
\* the canvas cv with window.__lastRendered = last
renderFrameInternal(proj, r, t, last, cv) ==
  The({ FrameOf(active, sub, proj, r, t, last, cv) :
          active \in {buildActiveObjects(proj, t)},
          sub \in {FindSubtitle(proj.subtitles, t)} })

\* what a call of renderFrame(t) does to the page
RenderFrameCall(t) ==
  /\ ms' = t
  /\ op' = "renderFrame"
  /\ \E f \in {renderFrameInternal(project, res, t, lastRendered, canvas)} :
       /\ ret' = [threw |-> f.threw, anyHas |-> f.anyHas, sub |-> f.sub]
       /\ canvas' = f.canvas
       /\ lastRendered' = f.lastRendered
  /\ UNCHANGED <<project, remembered, res>>

\* window.__renderer.renderFrame(t)
RenderFrameAt(t) == RenderFrameCall(t) /\ UNCHANGED hostVars

-----------------------------------------------------------------------------
(* Frames of projects with scenes, a logo, a banner and a subtitle *)

\* frames are asked for every 500 ms, from 0 to 500 * MaxFrameTick
MaxFrameTick == 6

FrameMs == { 500 * i : i \in 0..MaxFrameTick }

\* the banner overlays tried: none, and banners from 0.5 s on of several z
FrameBanners ==
  { <<>>,
    <<Overlay(Undef, Num(1, 2), Undef, Undef, Undef, Str("Breaking"))>>,
    <<Overlay(Undef, Num(1, 2), Undef, Whole(0), Undef, Str("Breaking"))>>,
    <<Overlay(Undef, Num(1, 2), Undef, Whole(120), Undef, Str("Breaking"))>> }

\* an image and a text during the first second, nothing during the second,
\* a video and a logo during the third, a subtitle from 2 s to 2.5 s
FrameProjects ==
  { Project(<<Scene(Whole(0), Whole(1),
                    <<Object("image", "a", za, <<>>), Object("text", "t", zt, <<>>)>>),
              Scene(Whole(2), Whole(3), <<Object("video", "v", Undef, <<>>)>>)>>,
            <<Logo(Str("logo"), Whole(2), Whole(3))>> \o banner,
            <<Subtitle(Whole(2), Num(5, 2), "one")>>) :
      za \in {Undef, Whole(100), Whole(101)}, zt \in {Undef, Whole(150)},
      banner \in FrameBanners }

\* what loadResources may have loaded of these projects
FrameResources ==
  { [images |-> {Str("a")}, logos |-> {Str("logo")}, videos |-> {Str("v")}],
    [images |-> {Str("a")}, logos |-> {}, videos |-> {}],
    [images |-> {}, logos |-> {Str("logo")}, videos |-> {Str("v")}],
    NoResources }

InitFrame ==
  /\ project \in FrameProjects
  /\ ms = 0
  /\ op = "init"
  /\ ret = NoRet
  /\ remembered = NoCall
  /\ lastRendered = FALSE
  /\ canvas = <<>>
  /\ res \in FrameResources
  /\ run = <<>>
  /\ async = <<>>
  /\ audio = <<>>

RenderFrame == \E t \in FrameMs : RenderFrameAt(t)

NextFrame == RenderFrame

SpecFrame == InitFrame /\ [][NextFrame]_vars

\* a call of renderFrame that returned
Rendered == op = "renderFrame" /\ ~ret.threw

\* w is the window of a scene or an overlay active at t
ActiveAt(w, t) == ~MissingBound(w) => InWindowMs(t, w)

\* at t the project has an active image or video of a scene, or an active
\* overlay, whose resource is loaded
StatedLoadedObject(proj, r, t) ==
  \/ \E i \in 1..Len(proj.videoTrack) :
       /\ ActiveAt(proj.videoTrack[i], t)
       /\ \E j \in 1..Len(proj.videoTrack[i].objects) :
            \E o \in {proj.videoTrack[i].objects[j]} :
              \/ o.type = Str("image") /\ o.src \in (r.images \cup r.logos)
              \/ o.type = Str("video") /\ o.src \in r.videos
  \/ \E i \in 1..Len(proj.overlays) :
       /\ ActiveAt(proj.overlays[i], t)
       /\ proj.overlays[i].src \in (r.images \cup r.logos)

\* at t the project has an active subtitle
StatedSubtitle(proj, t) ==
  \E i \in 1..Len(proj.subtitles) : InWindowMs(t, proj.subtitles[i])

\* C23: window.__lastRendered never goes back to false; a call makes it true
\* exactly when its frame has an active object with a loaded resource or an
\* active subtitle; a frame with neither fills the canvas with the background
\* if the flag is still false and leaves the canvas as it was otherwise.
C23_LastRenderedFlag ==
  [][(op' = "renderFrame" /\ ~ret'.threw) =>
       /\ lastRendered => lastRendered'
       /\ lastRendered' <=>
            (lastRendered \/ StatedLoadedObject(project, res, ms')
               \/ StatedSubtitle(project, ms'))
       /\ (~StatedLoadedObject(project, res, ms') /\ ~StatedSubtitle(project, ms')) =>
            /\ ~lastRendered => canvas' = <<FillBackground(ms')>>
            /\ lastRendered => canvas' = canvas]_vars

\* a frame with no resource and no subtitle, after a frame that drew: the
\* canvas still holds the earlier frame
C23_Witness ==
  /\ Rendered
  /\ ~ret.anyHas
  /\ ret.sub = 0
  /\ lastRendered
  /\ Len(canvas) > 1
  /\ canvas[1].at # ms

\* a first frame with no resource and no subtitle: only the background
C23_WitnessFirst ==
  /\ Rendered
  /\ ~lastRendered
  /\ canvas = <<FillBackground(ms)>>

\* the calls of drawNewsTitle among the calls made on the canvas
NewsCalls == { i \in 1..Len(canvas) : canvas[i].cmd = "drawNewsTitle" }

\* the drawings of active objects among them
ObjectCalls == { i \in 1..Len(canvas) : canvas[i].cmd \in {"drawImage", "drawVideo", "fillText"} }

\* the frame of the last call was drawn, and the project has a banner overlay
DrawnWithBanner ==
  /\ Rendered
  /\ (ret.anyHas \/ ret.sub # 0)
  /\ NewsOverlayIndex(project.overlays) # 0

\* the banner's numeric z, else 100
StatedNewsZ ==
  IF project.overlays[NewsOverlayIndex(project.overlays)].z.k = "num"
  THEN project.overlays[NewsOverlayIndex(project.overlays)].z
  ELSE Whole(100)

\* C24: in a frame that is drawn and has a banner overlay, drawNewsTitle is
\* called exactly once, after the drawing of every active object with
\* z <= newsZ and before that of every active object with z > newsZ, and
\* before the subtitle.
C24_BannerAtItsZ ==
  DrawnWithBanner =>
    /\ Cardinality(NewsCalls) = 1
    /\ \A n \in NewsCalls :
         /\ \A i \in ObjectCalls :
              /\ JsLe(canvas[i].z, StatedNewsZ) => i < n
              /\ JsGt(canvas[i].z, StatedNewsZ) => i > n
         /\ \A i \in 1..Len(canvas) : canvas[i].cmd = "drawSubtitle" => i > n
         /\ \A i \in 1..Len(canvas) : canvas[i].cmd = "fillRect" => i < n

\* a frame with an object drawn before the banner and one drawn after it
C24_Witness ==
  /\ DrawnWithBanner
  /\ \E n \in NewsCalls :
       /\ \E i \in ObjectCalls : i < n
       /\ \E i \in ObjectCalls : i > n

\* a frame with the banner drawn after all its objects and before the subtitle
C24_WitnessLast ==
  /\ DrawnWithBanner
  /\ ret.sub # 0
  /\ \E n \in NewsCalls :
       /\ n = Len(canvas) - 1
       /\ \E i \in ObjectCalls : i < n

\* the banner of the project is inside its time at ms
BannerInTime ==
  \E r \in {NewsTimingAt(project, ms)} :
    /\ r.computed
    /\ JsGe(r.local, Whole(0))
    /\ JsLe(r.local, r.timings.totalDurationRel)

\* C25: at every ms inside the time of a banner with a non-empty newsTitle,
\* renderFrame draws the banner, whatever else is active at ms.
C25_BannerAlwaysDrawn ==
  (Rendered /\ BannerInTime) =>
    \E n \in NewsCalls : canvas[n].at = ms /\ canvas[n].painted

-----------------------------------------------------------------------------
(* The run of render.js: the warm-up frames, then the saved frames *)

\* the project as render.js and the page read it, with its fps and its warm
RunProject(videoLength, fps, warm, scenes, overlays, subtitles) ==
  [project |-> [videoLength |-> videoLength, fps |-> Whole(fps), warm |-> Whole(warm)],
   videoTrack |-> scenes, overlays |-> overlays, subtitles |-> subtitles,
   audio |-> [tracks |-> <<>>, music |-> NoMusic]]

\* Math.max(0, parseInt(opts.warm || String(proj.project?.warm || "0"), 10))
warmFrames(proj) == MathMax(Whole(0), JsOr(proj.project.warm, Whole(0)))

\* Math.ceil(totalSec * fps)
totalFrames(proj) == MathCeil(JsMul(totalSec(proj), proj.project.fps))

\* a bug frameMs could have: the timestamp is cut, not rounded
frameMs_Floor(proj, f) ==
  The({ Whole(q.n \div q.d) :
          q \in {JsDiv(JsMul(Whole(f), Whole(1000)), proj.project.fps)} })

\* Math.round((f * 1000) / fps), for a warm-up frame and for a saved one
frameMs(proj, f) == MathRound(JsDiv(JsMul(Whole(f), Whole(1000)), proj.project.fps))

\* the run before its first frame: stage is the loop it is in, w and f the
\* loops' counters, at the position in the body of the loop, started and
\* returned the calls of renderFrame of the saved frames so far, frames the
\* screenshots written
RunStart ==
  [stage |-> "warm", w |-> 0, f |-> 0, at |-> "top", started |-> 0, returned |-> 0,
   frames |-> <<>>]

\* the screenshot of frame f, taken at the timestamp t
SavedFrame(f, t, cv) == [f |-> f, ms |-> t, canvas |-> cv]

\* await page.evaluate((t) => window.__renderer.renderFrame(t), ms): the call
\* is sent to the page
WarmEvaluate ==
  /\ run.stage = "warm"
  /\ run.at = "top"
  /\ JsLt(Whole(run.w), warmFrames(project))
  /\ run' = [run EXCEPT !.at = "evaluating"]
  /\ op' = "evaluate"
  /\ UNCHANGED <<project, ms, ret, remembered, pageVars, async, audio>>

\* the page runs renderFrame and the call returns
PageRenderFrame ==
  /\ run.at = "evaluating"
  /\ RenderFrameCall(frameMs(project, IF run.stage = "warm" THEN run.w ELSE run.f).n)
  /\ run' = [run EXCEPT !.at = "returned",
                         !.returned = IF run.stage = "frames" THEN @ + 1 ELSE @]
  /\ UNCHANGED <<async, audio>>

\* the pause after a warm-up frame, and the next round of the loop
WarmNext ==
  /\ run.stage = "warm"
  /\ run.at = "returned"
  /\ run' = [run EXCEPT !.at = "top", !.w = @ + 1]
  /\ op' = "warm"
  /\ UNCHANGED <<project, ms, ret, remembered, pageVars, async, audio>>

\* the warm-up is over, or there is none
WarmDone ==
  /\ run.stage = "warm"
  /\ run.at = "top"
  /\ ~JsLt(Whole(run.w), warmFrames(project))
  /\ run' = [run EXCEPT !.stage = "frames"]
  /\ op' = "warmed"
  /\ UNCHANGED <<project, ms, ret, remembered, pageVars, async, audio>>

\* for (let f = 0; f < totalFrames; f++): renderFrame is called for frame f
FrameEvaluate ==
  /\ run.stage = "frames"
  /\ run.at = "top"
  /\ JsLt(Whole(run.f), totalFrames(project))
  /\ run' = [run EXCEPT !.at = "evaluating", !.started = @ + 1]
  /\ op' = "evaluate"
  /\ UNCHANGED <<project, ms, ret, remembered, pageVars, async, audio>>

\* page.screenshot and fs.writeFileSync of frame f, then f++
Screenshot ==
  /\ run.stage = "frames"
  /\ run.at = "returned"
  /\ run' = [run EXCEPT !.at = "top", !.f = @ + 1,
                         !.frames = Append(@, SavedFrame(run.f, ms, canvas))]
  /\ op' = "screenshot"
  /\ UNCHANGED <<project, ms, ret, remembered, pageVars, async, audio>>

\* the loop over the frames is left
FramesDone ==
  /\ run.stage = "frames"
  /\ run.at = "top"
  /\ ~JsLt(Whole(run.f), totalFrames(project))
  /\ run' = [run EXCEPT !.stage = "done"]
  /\ op' = "framesReady"
  /\ UNCHANGED <<project, ms, ret, remembered, pageVars, async, audio>>

NextRun ==
  \/ WarmEvaluate
  \/ PageRenderFrame
  \/ WarmNext
  \/ WarmDone
  \/ FrameEvaluate
  \/ Screenshot
  \/ FramesDone

\* the frame rates tried are 2..MaxFps, the warm-up frames 0..MaxWarm
MaxFps == 3

MaxWarm == 2

\* a scene with an image from 0 or 0.5 s to 1 or 2 s, a subtitle in the last
\* half second before 2 s, and a length given or not
RunProjects ==
  { RunProject(videoLength, fps, warm,
               <<Scene(start, end, <<Object("image", "a", Undef, <<>>)>>)>>, <<>>,
               <<Subtitle(Num(3, 2), Whole(2), "one")>>) :
      videoLength \in {Undef, Whole(0), Num(3, 2), Num(5, 4)}, fps \in 2..MaxFps,
      warm \in 0..MaxWarm, start \in {Whole(0), Num(1, 2)}, end \in {Whole(1), Whole(2)} }

RunResources == { [images |-> {Str("a")}, logos |-> {}, videos |-> {}], NoResources }

InitRun ==
  /\ project \in RunProjects
  /\ ms = 0
  /\ op = "init"
  /\ ret = NoRet
  /\ remembered = NoCall
  /\ lastRendered = FALSE
  /\ canvas = <<>>
  /\ res \in RunResources
  /\ run = RunStart
  /\ async = <<>>
  /\ audio = <<>>

SpecRun == InitRun /\ [][NextRun]_vars

\* the length in seconds: project.videoLength when it is a number above 0,
\* otherwise the greatest end of a scene
StatedTotalSec ==
  IF project.project.videoLength.k = "num" /\ project.project.videoLength.n > 0
  THEN project.project.videoLength
  ELSE CHOOSE e \in { project.videoTrack[i].end : i \in 1..Len(project.videoTrack) } :
         \A i \in 1..Len(project.videoTrack) : JsLe(project.videoTrack[i].end, e)

\* ceil(totalSec * fps): the least whole number not below totalSec * fps
StatedTotalFrames ==
  CHOOSE n \in 0..(3 * MaxFps) :
    /\ n * StatedTotalSec.d >= StatedTotalSec.n * project.project.fps.n
    /\ (n - 1) * StatedTotalSec.d < StatedTotalSec.n * project.project.fps.n

\* round(f * 1000 / fps): the whole number within one half of f * 1000 / fps
StatedFrameMs(f) ==
  CHOOSE t \in 0..(1000 * f) :
    /\ 2 * t * project.project.fps.n <= 2 * f * 1000 + project.project.fps.n
    /\ 2 * f * 1000 - project.project.fps.n < 2 * t * project.project.fps.n

\* C26: render.js saves exactly ceil(totalSec * fps) frames, frame f rendered
\* at round(f * 1000 / fps); the frames are taken in increasing f, each once;
\* renderFrame of f has returned before the screenshot of f is written, and
\* renderFrame of f + 1 starts only after it: no two calls are in flight.
C26_FramesInOrder ==
  /\ Len(run.frames) <= StatedTotalFrames
  /\ run.stage = "done" => Len(run.frames) = StatedTotalFrames
  /\ \A i \in 1..Len(run.frames) :
       run.frames[i].f = i - 1 /\ run.frames[i].ms = StatedFrameMs(i - 1)
  /\ run.started - run.returned \in {0, 1}
  /\ run.returned - Len(run.frames) \in {0, 1}
  /\ run.started - Len(run.frames) \in {0, 1}

\* a finished run that saved several frames at timestamps that were rounded
C26_Witness ==
  /\ run.stage = "done"
  /\ Len(run.frames) > 3
  /\ \E i \in 1..Len(run.frames) : run.frames[i].ms = 667

\* the page after the first n saved frames of a run without warm-up frames
RECURSIVE ColdPage(_, _, _)
ColdPage(proj, r, n) ==
  IF n = 0 THEN FrameOutcome(FALSE, FALSE, 0, <<>>, FALSE)
  ELSE The({ renderFrameInternal(proj, r, frameMs(proj, n - 1).n,
                                 before.lastRendered, before.canvas) :
               before \in {ColdPage(proj, r, n - 1)} })

\* C29: the warm-up frames leave no trace in the saved frames: every saved
\* frame shows what it shows in the run of the same project without warm-up.
C29_WarmUpLeavesNoTrace ==
  \A i \in 1..Len(run.frames) :
    run.frames[i].canvas = ColdPage(project, res, i).canvas

\* the same for the runs without warm-up frames
C29_ColdRunIsCold ==
  project.project.warm = Whole(0) =>
    \A i \in 1..Len(run.frames) :
      run.frames[i].canvas = ColdPage(project, res, i).canvas

-----------------------------------------------------------------------------
(* loadResources and init: the page from the injected project to its first
   frames *)

\* a call of loadImage or loadVideo for the map kind
Request(kind, src) == [kind |-> kind, src |-> src]

\* the objects of all the scenes, in order
RECURSIVE AllObjects(_)
AllObjects(scenes) ==
  IF scenes = <<>> THEN <<>>
  ELSE AllObjects(SubSeq(scenes, 1, Len(scenes) - 1)) \o scenes[Len(scenes)].objects

\* what a Set keeps of the values added to it, in the order they were added
RECURSIVE SetOf(_)
SetOf(added) ==
  IF added = <<>> THEN <<>>
  ELSE The({ IF \E i \in 1..Len(before) : before[i] = added[Len(added)] THEN before
             ELSE Append(before, added[Len(added)]) :
               before \in {SetOf(SubSeq(added, 1, Len(added) - 1))} })

\* the src of each element of items, as a request for the map kind
RECURSIVE SrcsOf(_, _)
SrcsOf(items, kind) ==
  IF items = <<>> THEN <<>>
  ELSE Append(SrcsOf(SubSeq(items, 1, Len(items) - 1), kind),
              Request(kind, items[Len(items)].src))

IsImageObject(o) == o.type = Str("image")

IsVideoObject(o) == o.type = Str("video")

\* ov.type === "logo" && ov.src
IsLogoOverlay(ov) ==
  "type" \in DOMAIN ov /\ ov.type = Str("logo") /\ Truthy(ov.src)

\* imgSrcs, logoSrcs and vidSrcs, as the requests loadResources makes
LoadRequests(proj) ==
  SetOf(SrcsOf(SelectSeq(AllObjects(proj.videoTrack), IsImageObject), "image"))
    \o SetOf(SrcsOf(SelectSeq(proj.overlays, IsLogoOverlay), "logo"))
    \o SetOf(SrcsOf(SelectSeq(AllObjects(proj.videoTrack), IsVideoObject), "video"))

\* the elements of a sequence
Range(seq) == { seq[i] : i \in 1..Len(seq) }

\* the page with window.__PROJECT__ injected, before init calls loadResources
Injected ==
  [stage |-> "injected", requests |-> <<>>, pending |-> {}, loaded |-> {},
   failed |-> {}]

\* res.images, res.logos, res.videos filled from the requests that gave a value
LoadedMaps(loaded) ==
  [images |-> { q.src : q \in { x \in loaded : x.kind = "image" } },
   logos |-> { q.src : q \in { x \in loaded : x.kind = "logo" } },
   videos |-> { q.src : q \in { x \in loaded : x.kind = "video" } }]

\* loadResources(project) up to its await: every request is made
LoadResources ==
  /\ async.stage = "injected"
  /\ async' = [async EXCEPT !.stage = "loading", !.requests = LoadRequests(project),
                             !.pending = Range(LoadRequests(project))]
  /\ op' = "loadResources"
  /\ UNCHANGED <<project, ms, ret, remembered, pageVars, run, audio>>

\* img.onload, v.onloadeddata or v.oncanplaythrough of a pending request
ResourceLoaded ==
  \E q \in async.pending :
    /\ async' = [async EXCEPT !.pending = @ \ {q}, !.loaded = @ \cup {q}]
    /\ op' = "loaded"
    /\ UNCHANGED <<project, ms, ret, remembered, pageVars, run, audio>>

\* img.onerror or v.onerror of a pending request
ResourceFailed ==
  \E q \in async.pending :
    /\ async' = [async EXCEPT !.pending = @ \ {q}, !.failed = @ \cup {q}]
    /\ op' = "failed"
    /\ UNCHANGED <<project, ms, ret, remembered, pageVars, run, audio>>

\* the 8 s timer of a pending loadVideo
VideoTimedOut ==
  \E q \in async.pending :
    /\ q.kind = "video"
    /\ async' = [async EXCEPT !.pending = @ \ {q}, !.failed = @ \cup {q}]
    /\ op' = "timedOut"
    /\ UNCHANGED <<project, ms, ret, remembered, pageVars, run, audio>>

\* Promise.allSettled resolves, the maps are filled and loadResources returns
ResourcesSettled ==
  /\ async.stage = "loading"
  /\ async.pending = {}
  /\ async' = [async EXCEPT !.stage = "settled"]
  /\ res' = LoadedMaps(async.loaded)
  /\ op' = "settled"
  /\ UNCHANGED <<project, ms, ret, remembered, lastRendered, canvas, run, audio>>

\* a bug init could have: loadResources is not awaited
ExposeRenderer_NotAwaited ==
  /\ async.stage \in {"loading", "settled"}
  /\ async' = [async EXCEPT !.stage = "exposed"]
  /\ op' = "exposed"
  /\ UNCHANGED <<project, ms, ret, remembered, pageVars, run, audio>>

\* init goes on after await loadResources(project) and sets window.__renderer
ExposeRenderer ==
  /\ async.stage = "settled"
  /\ async' = [async EXCEPT !.stage = "exposed"]
  /\ op' = "exposed"
  /\ UNCHANGED <<project, ms, ret, remembered, pageVars, run, audio>>

\* the timestamps of the first frames
FirstFramesMs == {0, 500}

\* render.js has waited for window.__renderer and asks for a frame, a
\* warm-up frame or a saved one
RenderAfterInit ==
  /\ async.stage = "exposed"
  /\ \E t \in FirstFramesMs : RenderFrameAt(t)

NextLoad ==
  \/ LoadResources
  \/ ResourceLoaded
  \/ ResourceFailed
  \/ VideoTimedOut
  \/ ResourcesSettled
  \/ ExposeRenderer
  \/ RenderAfterInit

\* one scene of images and a video, some of the same src, and a logo that may
\* have the src of an image
LoadObjects ==
  { <<Object("image", "a", Undef, <<>>)>>,
    <<Object("image", "a", Undef, <<>>), Object("image", "a", Whole(1), <<>>)>>,
    <<Object("image", "a", Undef, <<>>), Object("video", "v", Undef, <<>>)>>,
    <<Object("video", "v", Undef, <<>>), Object("text", "t", Undef, <<>>),
      Object("video", "v", Whole(1), <<>>)>> }

LoadOverlays ==
  { <<>>, <<Logo(Str("logo"), Whole(0), Whole(1))>>,
    <<Logo(Str("a"), Whole(0), Whole(1)),
      Overlay(Str("plain"), Whole(0), Whole(1), Undef, Undef, Undef)>> }

LoadProjects ==
  { Project(<<Scene(Whole(0), Whole(1), objects)>>, overlays, <<>>) :
      objects \in LoadObjects, overlays \in LoadOverlays }

InitLoad ==
  /\ project \in LoadProjects
  /\ ms = 0
  /\ op = "init"
  /\ ret = NoRet
  /\ remembered = NoCall
  /\ lastRendered = FALSE
  /\ canvas = <<>>
  /\ res = NoResources
  /\ run = <<>>
  /\ async = Injected
  /\ audio = <<>>

SpecLoad == InitLoad /\ [][NextLoad]_vars

\* the image, video and logo sources the project refers to, each for its map
StatedReferences ==
  { Request("image", o.src) :
      o \in { x \in Range(AllObjects(project.videoTrack)) : x.type = Str("image") } }
    \cup
  { Request("video", o.src) :
      o \in { x \in Range(AllObjects(project.videoTrack)) : x.type = Str("video") } }
    \cup
  { Request("logo", ov.src) : ov \in { x \in Range(project.overlays) : IsLogoOverlay(x) } }

\* the map of res for the requests of a kind
MapOf(kind) ==
  IF kind = "image" THEN res.images ELSE IF kind = "logo" THEN res.logos ELSE res.videos

C27_WitnessSameSrc ==
  /\ op = "renderFrame"
  /\ Request("image", Str("a")) \in async.loaded
  /\ Request("logo", Str("a")) \in async.failed

-----------------------------------------------------------------------------
(* seekVideoAndWait: one promise, settled by whichever of its callbacks comes
   first *)

\* before the call: no promise yet
NoSeek ==
  [stage |-> "idle", settled |-> FALSE, resolved |-> 0, rejected |-> 0,
   timer |-> "none", onseeked |-> FALSE, checks |-> 0, rvfc |-> FALSE,
   lastPresented |-> 0 - 1, current |-> "far"]

\* a bug finish could have: no settled flag
finish_Unguarded(a) ==
  [a EXCEPT !.settled = TRUE, !.onseeked = FALSE,
            !.timer = IF @ = "armed" THEN "cleared" ELSE @,
            !.resolved = @ + 1]

\* finish(m): if (settled) return; settled = true; v.onseeked = null;
\* clearTimeout(timer); resolve()
finish(a) ==
  IF a.settled THEN a
  ELSE [a EXCEPT !.settled = TRUE, !.onseeked = FALSE,
                 !.timer = IF @ = "armed" THEN "cleared" ELSE @,
                 !.resolved = @ + 1]

\* the executor as far as the seek: the timer is set, v.onseeked and, where
\* the video has requestVideoFrameCallback, the frame callback are registered,
\* and v.currentTime = target leaves currentTime near the target or not
Seeking(hasRvfc, current) ==
  [NoSeek EXCEPT !.stage = "waiting", !.timer = "armed", !.onseeked = TRUE,
                 !.rvfc = hasRvfc, !.current = current]

\* if (closeEnough()) { clearTimeout(timer); v.pause(); finish(method); }
ImmediateCheck(a) ==
  IF a.current = "near" THEN finish([a EXCEPT !.timer = "cleared"]) ELSE a

\* seekVideoAndWait(v, target): the executor of the promise, which runs to
\* its end before any callback
SeekVideoAndWait ==
  /\ async.stage = "idle"
  /\ \E hasRvfc \in BOOLEAN, current \in {"near", "far"} :
       async' = ImmediateCheck(Seeking(hasRvfc, current))
  /\ op' = "seekVideoAndWait"
  /\ UNCHANGED <<project, ms, ret, remembered, pageVars, run, audio>>

\* the guard timer of 2500 ms: method = "timeout"; finish(method)
GuardTimerFires ==
  /\ async.timer = "armed"
  /\ async' = finish([async EXCEPT !.timer = "fired"])
  /\ op' = "timer"
  /\ UNCHANGED <<project, ms, ret, remembered, pageVars, run, audio>>

\* at most MaxChecks delayed checks are pending at a time
MaxChecks == 2

\* a seeked event while v.onseeked is set: the check is put off by 40 ms
SeekedEvent ==
  /\ async.stage = "waiting"
  /\ async.onseeked
  /\ async.checks < MaxChecks
  /\ async' = [async EXCEPT !.checks = @ + 1]
  /\ op' = "seeked"
  /\ UNCHANGED <<project, ms, ret, remembered, pageVars, run, audio>>

\* the delayed check: if (closeEnough()) finish(method)
DelayedCheck ==
  /\ async.checks > 0
  /\ async' = IF async.current = "near" THEN finish([async EXCEPT !.checks = @ - 1])
               ELSE [async EXCEPT !.checks = @ - 1]
  /\ op' = "delayedCheck"
  /\ UNCHANGED <<project, ms, ret, remembered, pageVars, run, audio>>

\* presentedFrames of the metadata goes up to MaxPresented
MaxPresented == 2

\* the frame callback cb(now, metadata): near is whether metadata.mediaTime
\* is a number within 0.05 of the target, counted whether
\* metadata.presentedFrames is a number, presented its value
FrameCallback(a, near, counted, presented) ==
  IF near THEN finish([a EXCEPT !.rvfc = FALSE])
  ELSE IF counted /\ a.lastPresented = 0 - 1 THEN [a EXCEPT !.lastPresented = presented]
  ELSE IF counted /\ presented > a.lastPresented THEN finish([a EXCEPT !.rvfc = FALSE])
  ELSE a

\* a callback registered with v.requestVideoFrameCallback is called
VideoFrameCallback ==
  /\ async.rvfc
  /\ \E near \in BOOLEAN, counted \in BOOLEAN, presented \in 0..MaxPresented :
       async' = FrameCallback(async, near, counted, presented)
  /\ op' = "rvfc"
  /\ UNCHANGED <<project, ms, ret, remembered, pageVars, run, audio>>

\* the video gets to the target, or plays on away from it
VideoMoves ==
  /\ async.stage = "waiting"
  /\ async' = [async EXCEPT !.current = IF @ = "near" THEN "far" ELSE "near"]
  /\ op' = "video"
  /\ UNCHANGED <<project, ms, ret, remembered, pageVars, run, audio>>

NextSeek ==
  \/ SeekVideoAndWait
  \/ GuardTimerFires
  \/ SeekedEvent
  \/ DelayedCheck
  \/ VideoFrameCallback
  \/ VideoMoves

\* a project with a video, loaded
SeekProjects ==
  { Project(<<Scene(Whole(0), Whole(2), <<Object("video", "v", Undef, <<>>)>>)>>,
            <<>>, <<>>) }

InitSeek ==
  /\ project \in SeekProjects
  /\ ms = 0
  /\ op = "init"
  /\ ret = NoRet
  /\ remembered = NoCall
  /\ lastRendered = FALSE
  /\ canvas = <<>>
  /\ res = [images |-> {}, logos |-> {}, videos |-> {Str("v")}]
  /\ run = <<>>
  /\ async = NoSeek
  /\ audio = <<>>

SpecSeek == InitSeek /\ [][NextSeek]_vars

\* C28: the promise of seekVideoAndWait never rejects and is resolved once:
\* never twice, whatever the order of the seeked events with their delayed
\* checks, the frame callbacks, the immediate check and the timer; it is
\* resolved by the time the guard timer has fired or has been cleared; and
\* once it is resolved no callback changes it.
C28_ResolvedOnce ==
  /\ async.rejected = 0
  /\ async.resolved \in {0, 1}
  /\ async.settled <=> async.resolved = 1
  /\ async.timer \in {"fired", "cleared"} => async.resolved = 1
  /\ async.stage = "waiting" => async.timer # "none"

\* a resolved promise with a delayed check and a frame callback still to come
C28_Witness ==
  /\ async.resolved = 1
  /\ async.timer = "fired"
  /\ async.checks > 0
  /\ async.rvfc
  /\ op \in {"delayedCheck", "rvfc"}

-----------------------------------------------------------------------------
(* The audio controller of the page: createAudioController and setVolume *)

\* percentToGain(percent) = Math.max(0, percent) / 100
percentToGain(percent) == JsDiv(MathMax(Whole(0), percent), Whole(100))

\* one definition of defs: its id and its volumePercent; routed is whether
\* ctx.createMediaElementSource(el) gave a node or threw
AudioDef(id, volumePercent, routed) ==
  [id |-> id, volumePercent |-> volumePercent, routed |-> routed]

\* the track createAudioController pushes for a definition: the GainNode is
\* made in both cases and is connected only when there is a srcNode;
\* without one the volume of the element is set (it is 1 on a new Audio)
ControllerTrack(d) ==
  [id |-> d.id,
   srcNode |-> d.routed,
   gainNode |-> TRUE,
   gain |-> percentToGain(d.volumePercent),
   element |-> IF d.routed THEN Whole(1) ELSE percentToGain(d.volumePercent),
   volumePercent |-> d.volumePercent]

\* tracks of the controller, one per definition, in order
ControllerTracks(defs) == [i \in 1..Len(defs) |-> ControllerTrack(defs[i])]

\* what is heard of a track: the element's own volume, times the gain when
\* the element plays through srcNode -> gain -> destination
EffectiveVolume(t) == IF t.srcNode THEN JsMul(t.element, t.gain) ELSE t.element

\* tracks.find((x) => x.id === id): the index of the first such track, 0 if none
FindTrack(tracks, id) ==
  IF \E i \in 1..Len(tracks) : tracks[i].id = id
  THEN CHOOSE i \in 1..Len(tracks) :
         tracks[i].id = id /\ \A j \in 1..(i - 1) : tracks[j].id # id
  ELSE 0

\* the track after setVolume: t.volumePercent = percent; if (t.gainNode)
\* t.gainNode.gain.value = percentToGain(percent); else t.element.volume = ...
VolumeSet(t, percent) ==
  IF t.gainNode
  THEN [t EXCEPT !.volumePercent = percent, !.gain = percentToGain(percent)]
  ELSE [t EXCEPT !.volumePercent = percent, !.element = percentToGain(percent)]

\* setVolume(id, percent) on the tracks: the tracks after it and what it returns
setVolume(tracks, id, percent) ==
  IF FindTrack(tracks, id) = 0
  THEN [tracks |-> tracks, returned |-> FALSE]
  ELSE [tracks |-> [tracks EXCEPT ![FindTrack(tracks, id)] = VolumeSet(@, percent)],
        returned |-> TRUE]

\* the ids and the percents of the calls
VolumeIds == {"music", "track-1", "none"}

VolumePercents == {Whole(0 - 10), Whole(0), Whole(25), Whole(100)}

\* controller.setVolume(id, percent)
SetVolume ==
  /\ \E id \in VolumeIds, percent \in VolumePercents :
       audio' = [tracks |-> setVolume(audio.tracks, id, percent).tracks,
                 before |-> audio.tracks,
                 id |-> id, percent |-> percent,
                 returned |-> setVolume(audio.tracks, id, percent).returned]
  /\ op' = "setVolume"
  /\ UNCHANGED <<project, ms, ret, remembered, pageVars, run, async>>

NextAudio == SetVolume

\* the definitions: one or two tracks, each routed or not
AudioDefs ==
  { <<AudioDef("music", v, routed)>> : v \in {Whole(50), Whole(100)}, routed \in BOOLEAN }
  \cup { <<AudioDef("track-0", v, r0), AudioDef("track-1", Whole(100), r1)>> :
            v \in {Whole(50), Whole(100)}, r0 \in BOOLEAN, r1 \in BOOLEAN }

InitAudio ==
  /\ project \in SeekProjects
  /\ ms = 0
  /\ op = "init"
  /\ ret = NoRet
  /\ remembered = NoCall
  /\ lastRendered = FALSE
  /\ canvas = <<>>
  /\ res = NoResources
  /\ run = <<>>
  /\ async = <<>>
  /\ \E defs \in AudioDefs :
       audio = [tracks |-> ControllerTracks(defs), before |-> ControllerTracks(defs),
                id |-> "none", percent |-> Whole(100), returned |-> FALSE]

SpecAudio == InitAudio /\ [][NextAudio]_vars

\* the last call was setVolume on a track there is
VolumeCalled == op = "setVolume" /\ FindTrack(audio.before, audio.id) # 0

\* C30: setVolume(id, percent) on a track there is makes what is heard of that
\* track max(0, percent)/100, with a srcNode through the gain and without one
\* through the volume of the element; it returns true and leaves the other
\* tracks as they were; with no such track it returns false and changes nothing.
C30_VolumeFollows ==
  op = "setVolume" =>
    IF FindTrack(audio.before, audio.id) = 0
    THEN ~audio.returned /\ audio.tracks = audio.before
    ELSE /\ audio.returned
         /\ EffectiveVolume(audio.tracks[FindTrack(audio.before, audio.id)])
              = percentToGain(audio.percent)
         /\ \A i \in 1..Len(audio.tracks) :
              i # FindTrack(audio.before, audio.id) => audio.tracks[i] = audio.before[i]

\* the same with a srcNode only: what the code does keep
C30_RoutedVolumeFollows ==
  (VolumeCalled /\ audio.before[FindTrack(audio.before, audio.id)].srcNode) =>
    /\ audio.returned
    /\ EffectiveVolume(audio.tracks[FindTrack(audio.before, audio.id)])
         = percentToGain(audio.percent)
    /\ \A i \in 1..Len(audio.tracks) :
         i # FindTrack(audio.before, audio.id) => audio.tracks[i] = audio.before[i]

\* without a srcNode the element keeps the volume it had
C30_FallbackKeepsVolume ==
  (VolumeCalled /\ ~audio.before[FindTrack(audio.before, audio.id)].srcNode) =>
    /\ audio.tracks[FindTrack(audio.before, audio.id)].element
         = audio.before[FindTrack(audio.before, audio.id)].element
    /\ audio.tracks[FindTrack(audio.before, audio.id)].gain = percentToGain(audio.percent)

====
